---- MODULE Spec2Model ----
(***************************************************************************)
(* Position reconciliation engine of sam_bnb_futures_limit_order:          *)
(* TradingEngine.adjust_or_open_positions (target builder, round-based     *)
(* postOnly reconciliation loop, market-order fallback), the quantity      *)
(* normaliser adjust_quantity, the exception flow of TradingEngine.run and *)
(* the waits of BinanceFuturesClient.place_postonly_order.                 *)
(*                                                                         *)
(* Quantities are integers in base units of the lot; money is in quote     *)
(* units.  PriceOf and TotalBalance are chosen so that every division the  *)
(* code performs on them is exact.                                         *)
(***************************************************************************)
EXTENDS Integers, Sequences, FiniteSets, TLC

----------------------------------------------------------------------------
(* Bounds of the model *)

MaxPos == 4
MaxFaults == 1
MaxRounds == 2
MaxPolls == 2
MaxRetries == 1
MaxOrders == 3

----------------------------------------------------------------------------
(* Configuration and venue data *)

Symbols == {"A", "B"}

Leverage == 2
NumLongPos == 1
NumShortPos == 1
PinNotional == 5
TotalBalance == 8

PriceOf == [s \in Symbols |-> 4]

Rules == [s \in Symbols |->
            [stepSize |-> 1, quantum |-> 1, minQty |-> 1, maxQty |-> 3,
             minNotional |-> 5]]

valid_symbols == Symbols

NoReason == "none"

----------------------------------------------------------------------------
(* Python dict helpers *)

Get(d, k) == IF k \in DOMAIN d THEN d[k] ELSE 0

Put(d, k, v) == [x \in (DOMAIN d) \cup {k} |-> IF x = k THEN v ELSE d[x]]

EmptyDict == [x \in {} |-> 0]

Abs(x) == IF x < 0 THEN -x ELSE x

Sign(side) == IF side = "BUY" THEN 1 ELSE -1

(* Python round(): nearest integer to n/d, ties to even; n >= 0, d > 0 *)
RoundHalfEven(n, d) ==
    LET q == n \div d
        r == n % d
    IN  IF 2 * r < d THEN q
        ELSE IF 2 * r > d THEN q + 1
        ELSE IF q % 2 = 0 THEN q ELSE q + 1

----------------------------------------------------------------------------
(* TradingEngine.adjust_quantity: the result and the reason it records *)

(* the quantity is left as it came *)
Unstepped(r, quantity) == quantity

(* line 105, inner round: the raw quantity on the grid of stepSize *)
Stepped(r, quantity) == RoundHalfEven(quantity, r.stepSize) * r.stepSize

(* line 105, outer round: quantityPrecision decimal places *)
Rounded(r, quantity) == RoundHalfEven(quantity, r.quantum) * r.quantum

(* lines 106-113: below minQty gives 0, above maxQty gives maxQty *)
Clamp(r, rounded) ==
    IF rounded < r.minQty THEN [qty |-> 0, reason |-> "qty_too_small"]
    ELSE IF rounded > r.maxQty THEN [qty |-> r.maxQty, reason |-> "qty_too_large"]
    ELSE [qty |-> rounded, reason |-> NoReason]

(* the notional is never compared *)
NotionalNever(is_close) == FALSE

(* line 115: the notional is compared for an order that is not a close *)
NotionalApplies(is_close) == ~is_close

(* lines 103-125: the body of adjust_quantity under the rules r *)
adjust_body(r, quantity, price, is_close) ==
    LET min_notional == IF is_close THEN 0 ELSE r.minNotional
        c == Clamp(r, Rounded(r, Stepped(r, quantity)))
    IN  IF NotionalApplies(is_close) /\ c.qty * price < min_notional
        THEN [qty |-> 0, reason |-> "notional_too_low", raised |-> FALSE]
        ELSE [qty |-> c.qty, reason |-> c.reason, raised |-> FALSE]

(* lines 96-103: what the exchange information holds for the symbol *)
InfoKinds == {"ok", "fetch_failed", "no_symbol", "no_lot_size", "no_min_notional"}

(* lines 96-103: the reads that raise; MIN_NOTIONAL is read for opens only *)
InfoRaises(info, is_close) ==
    \/ info \in {"fetch_failed", "no_symbol", "no_lot_size"}
    \/ info = "no_min_notional" /\ ~is_close

Raised == [qty |-> 0, reason |-> NoReason, raised |-> TRUE]

(* the exception leaves the function *)
AdjustUnguarded(out) == out

(* lines 95, 127-130: any exception is turned into 0 with a reason *)
AdjustGuard(out) ==
    IF out.raised THEN [qty |-> 0, reason |-> "adjust_failed", raised |-> FALSE]
    ELSE out

(* lines 93-130 under the exchange information (info, r) *)
adjust_under(info, r, quantity, price, is_close) ==
    AdjustGuard(IF InfoRaises(info, is_close) THEN Raised
                ELSE adjust_body(r, quantity, price, is_close))

adjust_quantity(symbol, quantity, price, is_close, info_ok) ==
    IF ~info_ok THEN AdjustGuard(Raised)
    ELSE IF symbol \notin DOMAIN Rules THEN AdjustGuard(Raised)
    ELSE adjust_under("ok", Rules[symbol], quantity, price, is_close)

(* error_reasons after a call of adjust_quantity *)
Noted(errs, symbol, adj) ==
    IF adj.reason = NoReason THEN errs ELSE Put(errs, symbol, adj.reason)

(* TradingEngine.calculate_position_size *)
calculate_position_size(balance, price) ==
    ((balance * Leverage) \div (NumLongPos + NumShortPos)) \div price

(* TradingEngine.get_stable_positions on a successful venue read *)
StablePositions(pos) == [t \in {s \in Symbols : pos[s] # 0} |-> pos[t]]

(* target - current over the union of both key sets *)
Require(tgt, cur) ==
    [k \in (DOMAIN tgt) \cup (DOMAIN cur) |-> Get(tgt, k) - Get(cur, k)]

NonZero(d) == [k \in {x \in DOMAIN d : d[x] # 0} |-> d[k]]

----------------------------------------------------------------------------
(* Target builder of adjust_or_open_positions: one candidate list.  st is   *)
(* [tgt, errs]; env describes the venue: the symbols in status TRADING, the *)
(* price get_symbol_price returns (0 when it fails), the state of the       *)
(* exchange information and the rules of each symbol, the balance and the   *)
(* number of slots the balance is shared between.                           *)

(* the slot is used although the candidate was passed over *)
SkipTakesSlot(count) == count + 1

(* lines 729, 734: continue leaves the slot count as it is *)
Skip(count) == count

(* the sign of the list is dropped *)
Unsigned(sgn, qty) == qty

(* lines 737, 760: qty for a long target, -qty for a short one *)
Signed(sgn, qty) == sgn * qty

(* lines 735, 758: the raw size of one slot, normalised as an opening order *)
SlotQuantity(env, ticker) ==
    adjust_under(env.info[ticker], env.rules[ticker],
                 ((env.balance * Leverage) \div env.slots) \div env.price[ticker],
                 env.price[ticker], FALSE)

RECURSIVE build_side(_, _, _, _, _, _)
build_side(env, cands, count, limit, sgn, st) ==
    IF cands = <<>> \/ count >= limit THEN st
    ELSE
    LET ticker == Head(cands)
        rest == Tail(cands)
    IN  IF ticker \notin env.trading
        THEN build_side(env, rest, Skip(count), limit, sgn,
                        [st EXCEPT !.errs = Put(@, ticker, "not_tradable")])
        ELSE IF env.price[ticker] = 0
        THEN build_side(env, rest, Skip(count), limit, sgn,
                        [st EXCEPT !.errs = Put(@, ticker, "price_failed")])
        ELSE
        LET adj == SlotQuantity(env, ticker)
            noted == Noted(st.errs, ticker, adj)
        IN  IF adj.qty > 0
            THEN build_side(env, rest, count + 1, limit, sgn,
                            [tgt |-> Put(st.tgt, ticker, Signed(sgn, adj.qty)),
                             errs |-> noted])
            ELSE build_side(env, rest, Skip(count), limit, sgn,
                            [tgt |-> st.tgt,
                             errs |-> IF ticker \in DOMAIN noted THEN noted
                                      ELSE Put(noted, ticker, "qty_zero")])

(* the venue of the reconciliation model: every symbol trades under Rules, *)
(* the price of the symbols outside priceOK cannot be read                  *)
VenueEnv(priceOK) ==
    [trading |-> valid_symbols,
     price |-> [s \in Symbols |-> IF s \in priceOK THEN PriceOf[s] ELSE 0],
     info |-> [s \in Symbols |-> "ok"],
     rules |-> Rules,
     balance |-> TotalBalance,
     slots |-> NumLongPos + NumShortPos]

BuildSide(cands, count, limit, sgn, st, priceOK) ==
    build_side(VenueEnv(priceOK), cands, count, limit, sgn, st)

BuildTargets(longs, shorts, errs, priceOK) ==
    LET l == BuildSide(longs, 0, NumLongPos, 1,
                       [tgt |-> EmptyDict, errs |-> errs], priceOK)
    IN  BuildSide(shorts, 0, NumShortPos, -1, l, priceOK)

----------------------------------------------------------------------------
(* State *)

VARIABLES
    vpos,               \* venue: position per symbol
    vbal,               \* venue: availableBalance
    vorders,            \* venue: orders by id (index)
    long_candidates, short_candidates,
    scan,               \* the order in which this process iterates the symbols
    pc,
    final_target, current_positions, all_orders,
    adjusted_to_zero, processed_tickers,
    phase_orders,       \* close_orders / open_orders / force_adjustments
    todo,               \* keys of phase_orders still to iterate
    pending_orders, available_balance, error_reasons,
    is_first_day, elapsed, polls, retry,
    faults,             \* venue failures injected so far
    hist                \* history of the run, for the properties

venue == <<vpos, vbal, vorders>>
inputs == <<long_candidates, short_candidates, scan>>
engine == <<final_target, current_positions, all_orders, adjusted_to_zero,
            processed_tickers, phase_orders, todo, pending_orders,
            available_balance, error_reasons, is_first_day, elapsed, polls,
            retry>>
engine_but_polls ==
    <<final_target, current_positions, all_orders, adjusted_to_zero,
      processed_tickers, phase_orders, todo, pending_orders, available_balance,
      error_reasons, is_first_day, elapsed, retry>>

vars == <<venue, inputs, pc, engine, faults, hist>>

MarginPerUnit(s) == PriceOf[s] \div Leverage

UsedMargin(pos) ==
    Abs(pos["A"]) * MarginPerUnit("A") + Abs(pos["B"]) * MarginPerUnit("B")

(* positions held when the run starts; the largest one is held alone *)
InitPositions ==
    {p \in [Symbols -> (-MaxPos)..MaxPos] :
        /\ Abs(p["A"]) + Abs(p["B"]) <= MaxPos
        /\ Abs(p["A"]) + Abs(p["B"]) = MaxPos => (p["A"] = 0 \/ p["B"] = 0)}

InitBalances == {0, 4, TotalBalance}

CandidateConfigs ==
    { <<(<<"A">>), (<<"B">>)>>, <<(<<"A">>), (<<>>)>> }

(* a dict built from a set is iterated in the set's order, which the      *)
(* process fixes by its string hashing                                      *)
ScanOrders == { <<"A", "B">>, <<"B", "A">> }

NoRetry == [on |-> FALSE]

NoLast == [kind |-> "none"]

InitHist ==
    [exit |-> "none", readFailed |-> FALSE, last |-> NoLast,
     failed |-> {}, reattempt |-> {}, placed |-> {}, short |-> {},
     residual |-> {}, fbSub |-> [s \in Symbols |-> 0], fbErr |-> {},
     fbAborted |-> FALSE, fbRead |-> FALSE, fbOpened |-> FALSE,
     fbUnread |-> FALSE, fbLate |-> FALSE]

Init ==
    /\ vpos \in InitPositions
    /\ vbal \in {b \in InitBalances : b + UsedMargin(vpos) <= TotalBalance}
    /\ vorders = <<>>
    /\ \E c \in CandidateConfigs :
          long_candidates = c[1] /\ short_candidates = c[2]
    /\ scan \in ScanOrders
    /\ pc = "start"
    /\ final_target = EmptyDict
    /\ current_positions = EmptyDict
    /\ all_orders = EmptyDict
    /\ adjusted_to_zero = {}
    /\ processed_tickers = {}
    /\ phase_orders = EmptyDict
    /\ todo = {}
    /\ pending_orders = <<>>
    /\ available_balance = 0
    /\ error_reasons = EmptyDict
    /\ is_first_day = FALSE
    /\ elapsed = 0
    /\ polls = 0
    /\ retry = NoRetry
    /\ faults = 0
    /\ hist = InitHist

(* the next key a loop over a dict with these keys left visits *)
NextKey(keys) ==
    scan[CHOOSE i \in 1..Len(scan) :
            scan[i] \in keys /\ \A j \in 1..(i - 1) : scan[j] \notin keys]

(* a set of venue faults an action may draw within the remaining budget *)
FaultSets(kinds) ==
    {F \in SUBSET kinds : faults + Cardinality(F) <= MaxFaults}

(* the except clause of adjust_or_open_positions: the "global" reason *)
Abort(errs) == Put(errs, "global", "adjust_failed")

----------------------------------------------------------------------------
(* Venue *)

OpenIds == {i \in 1..Len(vorders) : vorders[i].st \in {"NEW", "PARTIALLY_FILLED"}}

Reduces(side, p) == (side = "SELL" /\ p > 0) \/ (side = "BUY" /\ p < 0)

(* TradingEngine.check_existing_orders: self.client.get_order_status does  *)
(* not exist, so every tracked entry is dropped and the open-orders query   *)
(* decides; a failed query answers False                                    *)
check_existing_orders(ticker, side, api_ok) ==
    api_ok /\ \E i \in OpenIds : vorders[i].sym = ticker /\ vorders[i].side = side

(* BinanceFuturesClient.place_postonly_order refuses an opening order      *)
(* below the minimum notional or above the venue's available balance        *)
LocalRefusal(symbol, quantity, price, is_close) ==
    /\ ~is_close
    /\ \/ quantity * price < Rules[symbol].minNotional
       \/ vbal * Leverage < quantity * price

(* the venue refuses a reduce-only order that reduces nothing *)
VenueRefusal(symbol, side, is_close) ==
    \/ is_close /\ ~Reduces(side, vpos[symbol])
    \/ Len(vorders) >= MaxOrders

(* every failure of the placement reads as the -5022 rejection *)
place_as_5022(symbol, side, quantity, price, is_close, f) ==
    IF LocalRefusal(symbol, quantity, price, is_close)
       \/ VenueRefusal(symbol, side, is_close)
       \/ f \in {"reject", "reject5022"}
    THEN "rejected5022"
    ELSE "ok"

(* what place_postonly_order returns: "ok", "rejected" (any failure but   *)
(* the next) or "rejected5022" (APIError -5022, the order would cross);     *)
(* f is the venue fault drawn for this call                                 *)
place_postonly_order(symbol, side, quantity, price, is_close, f) ==
    IF LocalRefusal(symbol, quantity, price, is_close)
       \/ VenueRefusal(symbol, side, is_close)
    THEN "rejected"
    ELSE IF f = "reject" THEN "rejected"
    ELSE IF f = "reject5022" THEN "rejected5022"
    ELSE "ok"

Forced(symbol, side, quantity, price, is_close) ==
    LocalRefusal(symbol, quantity, price, is_close)
    \/ VenueRefusal(symbol, side, is_close)

(* the order is sent without the reduceOnly mark *)
UnmarkedOrder(symbol, side, quantity, is_close) ==
    [sym |-> symbol, side |-> side, qty |-> quantity, exec |-> 0,
     st |-> "NEW", ro |-> FALSE]

NewOrder(symbol, side, quantity, is_close) ==
    [sym |-> symbol, side |-> side, qty |-> quantity, exec |-> 0,
     st |-> "NEW", ro |-> is_close]

Pending(ticker, order_id, side, qty) ==
    [ticker |-> ticker, order_id |-> order_id, side |-> side, qty |-> qty]

----------------------------------------------------------------------------
(* adjust_or_open_positions, lines 678-788: account snapshot, target map,  *)
(* first delta set                                                          *)

Start ==
    /\ pc = "start"
    /\ \E F \in FaultSets({"account", "positions1", "exchange", "positions2"}),
          PF \in SUBSET Symbols :
          /\ faults + Cardinality(F) + Cardinality(PF) <= MaxFaults
          /\ "account" \in F => F = {"account"} /\ PF = {}
          /\ "exchange" \in F => F \subseteq {"exchange", "positions1"} /\ PF = {}
          /\ faults' = faults + Cardinality(F) + Cardinality(PF)
          /\ IF "account" \in F \/ "exchange" \in F
             THEN /\ pc' = "returned"
                  /\ error_reasons' = Abort(error_reasons)
                  /\ hist' = [hist EXCEPT !.exit = "no_loop",
                                          !.readFailed = ("account" \in F)
                                                         \/ ("positions1" \in F)]
                  /\ UNCHANGED <<final_target, current_positions, all_orders,
                                 available_balance, is_first_day>>
             ELSE LET cur1 == IF "positions1" \in F THEN EmptyDict
                              ELSE StablePositions(vpos)
                      built == BuildTargets(long_candidates, short_candidates,
                                            error_reasons, Symbols \ PF)
                      cur2 == IF "positions2" \in F THEN EmptyDict
                              ELSE StablePositions(vpos)
                  IN  /\ pc' = "round_start"
                      /\ available_balance' = vbal
                      /\ is_first_day' = (cur1 = EmptyDict)
                      /\ final_target' = built.tgt
                      /\ error_reasons' = built.errs
                      /\ current_positions' = cur2
                      /\ all_orders' = NonZero(Require(built.tgt, cur2))
                      /\ hist' = [hist EXCEPT !.readFailed =
                                     ("positions1" \in F) \/ ("positions2" \in F)]
    /\ UNCHANGED <<venue, inputs, adjusted_to_zero, processed_tickers,
                   phase_orders, todo, pending_orders, elapsed, polls, retry>>

----------------------------------------------------------------------------
(* lines 790-836: start of a round *)

(* lines 803-815: executedQty of every partially filled open order is added *)
RECURSIVE AddPartials(_, _)
AddPartials(cur, i) ==
    IF i > Len(vorders) THEN cur
    ELSE LET o == vorders[i]
         IN  IF o.st = "PARTIALLY_FILLED" /\ o.exec > 0
             THEN AddPartials(Put(cur, o.sym, Get(cur, o.sym) + Sign(o.side) * o.exec),
                              i + 1)
             ELSE AddPartials(cur, i + 1)

(* lines 827-836 *)
IsCloseOrder(cur, tgt, ticker, qty) ==
    /\ ticker \in DOMAIN cur
    /\ \/ cur[ticker] # 0 /\ Get(tgt, ticker) = 0
       \/ cur[ticker] > 0 /\ Get(tgt, ticker) > 0 /\ qty < 0
       \/ cur[ticker] < 0 /\ Get(tgt, ticker) < 0 /\ qty > 0
       \/ qty > 0 /\ cur[ticker] < 0
       \/ qty < 0 /\ cur[ticker] > 0

close_orders(orders, cur, tgt) ==
    [t \in {k \in DOMAIN orders : IsCloseOrder(cur, tgt, k, orders[k])} |-> orders[t]]

(* the budget counts as spent at every check *)
BudgetAlwaysSpent(rounds) == TRUE

(* lines 818-819: the run budget is compared with the time used so far *)
BudgetSpent(rounds) == rounds >= MaxRounds

RoundStart ==
    /\ pc = "round_start"
    /\ \E F \in FaultSets({"account", "open_orders"}) :
          LET cur == IF "open_orders" \in F THEN current_positions
                     ELSE AddPartials(current_positions, 1)
              co == close_orders(all_orders, cur, final_target)
          IN  /\ faults' = faults + Cardinality(F)
              /\ available_balance' = IF "account" \in F THEN available_balance
                                      ELSE vbal
              /\ current_positions' = cur
              /\ IF BudgetSpent(elapsed)
                 THEN /\ pc' = "fb_start"
                      /\ hist' = [hist EXCEPT !.exit = "timeout",
                                     !.readFailed = @ \/ ("account" \in F),
                                     !.last = NoLast]
                      /\ UNCHANGED <<processed_tickers, phase_orders, todo>>
                 ELSE /\ pc' = "close"
                      /\ processed_tickers' = {}
                      /\ phase_orders' = co
                      /\ todo' = DOMAIN co
                      /\ hist' = [hist EXCEPT !.readFailed = @ \/ ("account" \in F),
                                     !.last = NoLast, !.failed = {},
                                     !.placed = {}, !.short = {}]
    /\ UNCHANGED <<venue, inputs, final_target, all_orders, adjusted_to_zero,
                   pending_orders, error_reasons, is_first_day, elapsed, polls,
                   retry>>

----------------------------------------------------------------------------
(* lines 837-884: one iteration of the close loop *)

StepFaults == {"none", "price", "info", "api", "reject", "reject5022"}

FaultOK(f) == f # "none" => faults < MaxFaults

Retry(ticker, side, qty, is_close, back) ==
    [on |-> TRUE, ticker |-> ticker, side |-> side, qty |-> qty,
     is_close |-> is_close, n |-> 0, back |-> back]

Last(kind, ticker, reverse, adj, price, bal, submitted, reason) ==
    [kind |-> kind, ticker |-> ticker, reverse |-> reverse, adj |-> adj,
     price |-> price, bal |-> bal, submitted |-> submitted, reason |-> reason]

(* lines 842-843: qty_to_close = min(abs(qty), abs(current_positions[ticker])) *)
qty_to_close(qty, cur) == IF Abs(qty) < Abs(cur) THEN Abs(qty) ELSE Abs(cur)

CloseStep(t, f) ==
    LET qty == phase_orders[t]
        cur == Get(current_positions, t)
        side == IF qty > 0 \/ cur < 0 THEN "BUY" ELSE "SELL"
        to_close == qty_to_close(qty, cur)
        price == PriceOf[t]
        adj == adjust_quantity(t, to_close, price, TRUE, f # "info")
        noted == Noted(error_reasons, t, adj)
        exists == check_existing_orders(t, side, f # "api")
        res == place_postonly_order(t, side, adj.qty, price, TRUE, f)
        newcur == Get(current_positions, t) + Sign(side) * adj.qty
        L(sub, why) == Last("close", t, TRUE, adj.qty, price, available_balance,
                            sub, why)
    IN
    /\ pc = "close" /\ t \in todo /\ t = NextKey(todo) /\ FaultOK(f)
    /\ todo' = todo \ {t}
    /\ faults' = faults + (IF f = "none" THEN 0 ELSE 1)
    /\ IF qty = 0 \/ t \in adjusted_to_zero
       THEN /\ f = "none"
            /\ hist' = [hist EXCEPT !.last = NoLast]
            /\ UNCHANGED <<vorders, pc, current_positions, all_orders,
                           processed_tickers, pending_orders, error_reasons, retry>>
       ELSE IF f = "price"
       THEN /\ error_reasons' = Put(error_reasons, t, "price_failed")
            /\ hist' = [hist EXCEPT !.last = L(FALSE, "price_failed"),
                                    !.failed = @ \cup {t}]
            /\ UNCHANGED <<vorders, pc, current_positions, all_orders,
                           processed_tickers, pending_orders, retry>>
       ELSE IF adj.qty <= 0
       THEN /\ f \in {"none", "info"}
            /\ error_reasons' = Put(noted, t, "qty_zero")
            /\ hist' = [hist EXCEPT !.last = L(FALSE, "qty_zero"),
                                    !.failed = @ \cup {t}]
            /\ UNCHANGED <<vorders, pc, current_positions, all_orders,
                           processed_tickers, pending_orders, retry>>
       ELSE IF exists
       THEN /\ f = "none"
            /\ error_reasons' = noted
            /\ hist' = [hist EXCEPT !.last = L(FALSE, NoReason)]
            /\ UNCHANGED <<vorders, pc, current_positions, all_orders,
                           processed_tickers, pending_orders, retry>>
       ELSE /\ f = "api" => check_existing_orders(t, side, TRUE)
            /\ Forced(t, side, adj.qty, price, TRUE) => f \in {"none", "api"}
            /\ IF res = "ok"
               THEN /\ vorders' = Append(vorders, NewOrder(t, side, adj.qty, TRUE))
                    /\ pending_orders' = Append(pending_orders,
                           Pending(t, Len(vorders) + 1, side, adj.qty))
                    /\ processed_tickers' = processed_tickers \cup {t}
                    /\ current_positions' = Put(current_positions, t, newcur)
                    /\ all_orders' = Put(all_orders, t, Get(final_target, t) - newcur)
                    /\ error_reasons' = noted
                    /\ hist' = [hist EXCEPT !.last = L(TRUE, NoReason),
                                            !.placed = @ \cup {t}]
                    /\ UNCHANGED <<pc, retry>>
               ELSE /\ IF res = "rejected5022"
                       THEN /\ error_reasons' = Put(noted, t, "order_failed")
                            /\ retry' = Retry(t, side, to_close, TRUE, "close")
                            /\ pc' = "retry"
                       ELSE /\ error_reasons' = Put(noted, t, "postonly_failed")
                            /\ UNCHANGED <<pc, retry>>
                    /\ hist' = [hist EXCEPT !.last = L(TRUE, "order_failed"),
                                            !.failed = @ \cup {t},
                                            !.placed = @ \cup {t}]
                    /\ UNCHANGED <<vorders, current_positions, all_orders,
                                   processed_tickers, pending_orders>>
    /\ UNCHANGED <<vpos, vbal, inputs, final_target, adjusted_to_zero,
                   phase_orders, available_balance, is_first_day, elapsed, polls>>

(* lines 886-888: the open loop iterates the deltas left after the closes *)
CloseDone ==
    /\ pc = "close" /\ todo = {}
    /\ LET open_orders == [t \in (DOMAIN all_orders) \ adjusted_to_zero |->
                              all_orders[t]]
       IN  /\ phase_orders' = open_orders
           /\ todo' = DOMAIN open_orders
    /\ pc' = "open"
    /\ hist' = [hist EXCEPT !.last = NoLast]
    /\ UNCHANGED <<venue, inputs, final_target, current_positions, all_orders,
                   adjusted_to_zero, processed_tickers, pending_orders,
                   available_balance, error_reasons, is_first_day, elapsed,
                   polls, retry, faults>>

----------------------------------------------------------------------------
(* lines 890-957: one iteration of the open loop *)

margin_required(adjusted_qty, price) == (adjusted_qty * price) \div Leverage

(* no balance is ever enough *)
AlwaysInsufficient(balance, adjusted_qty, price) == TRUE

(* line 921 *)
InsufficientBalance(balance, adjusted_qty, price) ==
    balance < margin_required(adjusted_qty, price)

(* no order of the open loop is taken for a reverse open *)
never_reverse_open(cur, tgt, ticker, qty) == FALSE

(* lines 902-907 *)
is_reverse_open(cur, tgt, ticker, qty) ==
    /\ ticker \in DOMAIN cur
    /\ \/ qty > 0 /\ cur[ticker] <= 0 /\ Get(tgt, ticker) >= 0
       \/ qty < 0 /\ cur[ticker] >= 0 /\ Get(tgt, ticker) <= 0

OpenStep(t, f) ==
    LET qty == phase_orders[t]
        side == IF qty > 0 THEN "BUY" ELSE "SELL"
        price == PriceOf[t]
        rev == is_reverse_open(current_positions, final_target, t, qty)
        adj == adjust_quantity(t, Abs(qty), price, rev, f # "info")
        noted == Noted(error_reasons, t, adj)
        exists == check_existing_orders(t, side, f # "api")
        res == place_postonly_order(t, side, adj.qty, price, rev, f)
        newcur == Get(current_positions, t) + Sign(side) * adj.qty
        L(sub, why) == Last("open", t, rev, adj.qty, price, available_balance,
                            sub, why)
        short == IF ~rev /\ available_balance * Leverage < adj.qty * price
                 THEN {t} ELSE {}
    IN
    /\ pc = "open" /\ t \in todo /\ t = NextKey(todo) /\ FaultOK(f)
    /\ todo' = todo \ {t}
    /\ faults' = faults + (IF f = "none" THEN 0 ELSE 1)
    /\ IF qty = 0 \/ t \in processed_tickers
       THEN /\ f = "none"
            /\ hist' = [hist EXCEPT !.last = NoLast]
            /\ UNCHANGED <<vorders, pc, current_positions, all_orders,
                           processed_tickers, pending_orders, error_reasons,
                           retry, available_balance>>
       ELSE IF f = "price"
       THEN /\ error_reasons' = Put(error_reasons, t, "price_failed")
            /\ hist' = [hist EXCEPT !.last = L(FALSE, "price_failed")]
            /\ UNCHANGED <<vorders, pc, current_positions, all_orders,
                           processed_tickers, pending_orders, retry,
                           available_balance>>
       ELSE IF adj.qty <= 0
       THEN /\ f \in {"none", "info"}
            /\ error_reasons' = Put(noted, t, "qty_zero")
            /\ hist' = [hist EXCEPT !.last = L(FALSE, "qty_zero")]
            /\ UNCHANGED <<vorders, pc, current_positions, all_orders,
                           processed_tickers, pending_orders, retry,
                           available_balance>>
       ELSE IF ~rev /\ InsufficientBalance(available_balance, adj.qty, price)
       THEN /\ f = "none"
            /\ error_reasons' = Put(noted, t, "insufficient_balance")
            /\ hist' = [hist EXCEPT !.last = L(FALSE, "insufficient_balance"),
                                    !.short = @ \cup short]
            /\ UNCHANGED <<vorders, pc, current_positions, all_orders,
                           processed_tickers, pending_orders, retry,
                           available_balance>>
       ELSE IF exists
       THEN /\ f = "none"
            /\ error_reasons' = noted
            /\ hist' = [hist EXCEPT !.last = L(FALSE, NoReason),
                                    !.short = @ \cup short]
            /\ UNCHANGED <<vorders, pc, current_positions, all_orders,
                           processed_tickers, pending_orders, retry,
                           available_balance>>
       ELSE /\ f = "api" => check_existing_orders(t, side, TRUE)
            /\ Forced(t, side, adj.qty, price, rev) => f \in {"none", "api"}
            /\ IF res = "ok"
               THEN /\ vorders' = Append(vorders, NewOrder(t, side, adj.qty, rev))
                    /\ pending_orders' = Append(pending_orders,
                           Pending(t, Len(vorders) + 1, side, adj.qty))
                    /\ processed_tickers' = processed_tickers \cup {t}
                    /\ current_positions' = Put(current_positions, t, newcur)
                    /\ all_orders' = Put(all_orders, t, Get(final_target, t) - newcur)
                    /\ available_balance' =
                           IF rev THEN available_balance
                           ELSE available_balance - margin_required(adj.qty, price)
                    /\ error_reasons' = noted
                    /\ hist' = [hist EXCEPT !.last = L(TRUE, NoReason),
                                            !.reattempt = @ \cup ({t} \cap hist.failed),
                                            !.placed = @ \cup {t},
                                            !.short = @ \cup short]
                    /\ UNCHANGED <<pc, retry>>
               ELSE /\ IF res = "rejected5022"
                       THEN /\ error_reasons' = Put(noted, t, "order_failed")
                            /\ retry' = Retry(t, side, Abs(qty), rev, "open")
                            /\ pc' = "retry"
                       ELSE /\ error_reasons' = Put(noted, t, "postonly_failed")
                            /\ UNCHANGED <<pc, retry>>
                    /\ hist' = [hist EXCEPT !.last = L(TRUE, "order_failed"),
                                            !.reattempt = @ \cup ({t} \cap hist.failed),
                                            !.placed = @ \cup {t},
                                            !.short = @ \cup short]
                    /\ UNCHANGED <<vorders, current_positions, all_orders,
                                   processed_tickers, pending_orders,
                                   available_balance>>
    /\ UNCHANGED <<vpos, vbal, inputs, final_target, adjusted_to_zero,
                   phase_orders, is_first_day, elapsed, polls>>

(* line 960: the fill-wait is entered only with orders resting *)
OpenDone ==
    /\ pc = "open" /\ todo = {}
    /\ pc' = IF pending_orders # <<>> THEN "wait" ELSE "round_end"
    /\ polls' = 0
    /\ hist' = [hist EXCEPT !.last = NoLast]
    /\ UNCHANGED <<venue, inputs, engine_but_polls, faults>>

----------------------------------------------------------------------------
(* handle_postonly_error, lines 1309-1357: one iteration of the retry      *)
(* loop; a book that still crosses (-5022) belongs to the fault that        *)
(* started the retries                                                       *)

RetryStep(f) ==
    LET t == retry.ticker
        price == PriceOf[t]
        exists == check_existing_orders(t, retry.side, f # "api")
        adj == adjust_quantity(t, Abs(retry.qty), price, retry.is_close, f # "info")
        noted == Noted(error_reasons, t, adj)
        res == place_postonly_order(t, retry.side, adj.qty, price, retry.is_close, f)
        again == /\ retry' = [retry EXCEPT !.n = @ + 1]
                 /\ UNCHANGED <<pc, vorders, pending_orders>>
    IN
    /\ pc = "retry" /\ retry.n < MaxRetries
    /\ f = "reject5022" \/ FaultOK(f)
    /\ faults' = faults + (IF f \in {"none", "reject5022"} THEN 0 ELSE 1)
    /\ IF exists
       THEN /\ f = "none"
            /\ error_reasons' = Put(error_reasons, t, "postonly_failed")
            /\ pc' = retry.back
            /\ retry' = NoRetry
            /\ UNCHANGED <<vorders, pending_orders, hist>>
       ELSE IF f = "price"
       THEN again /\ UNCHANGED <<error_reasons, hist>>
       ELSE IF adj.qty <= 0
       THEN /\ f \in {"none", "info"}
            /\ again
            /\ error_reasons' = noted
            /\ UNCHANGED hist
       ELSE /\ f = "api" => check_existing_orders(t, retry.side, TRUE)
            /\ Forced(t, retry.side, adj.qty, price, retry.is_close)
                  => f \in {"none", "api"}
            /\ error_reasons' = noted
            /\ IF res = "ok"
               THEN /\ vorders' = Append(vorders,
                           NewOrder(t, retry.side, adj.qty, retry.is_close))
                    /\ pending_orders' = Append(pending_orders,
                           Pending(t, Len(vorders) + 1, retry.side, adj.qty))
                    /\ pc' = retry.back
                    /\ retry' = NoRetry
                    /\ hist' = [hist EXCEPT !.placed = @ \cup {t}]
               ELSE again /\ UNCHANGED hist
    /\ UNCHANGED <<vpos, vbal, inputs, final_target, current_positions,
                   all_orders, adjusted_to_zero, processed_tickers, phase_orders,
                   todo, available_balance, is_first_day, elapsed, polls>>

(* lines 1321 and 1355-1357: the retry window has run out *)
RetryGiveUp ==
    /\ pc = "retry" /\ retry.n >= MaxRetries
    /\ error_reasons' = Put(error_reasons, retry.ticker, "postonly_failed")
    /\ pc' = retry.back
    /\ retry' = NoRetry
    /\ UNCHANGED <<venue, inputs, final_target, current_positions, all_orders,
                   adjusted_to_zero, processed_tickers, phase_orders, todo,
                   pending_orders, available_balance, is_first_day, elapsed,
                   polls, faults, hist>>

----------------------------------------------------------------------------
(* lines 963-1028: one pass of the fill-wait over the resting orders *)

PollFaults == {"none", "err", "err2011", "err2011_trades"}

(* the executed quantity found for an order is left out of the view *)
NoCredit(st, p, q) == st

(* the engine's view after folding the filled quantity of an order in *)
Credit(st, p, q) ==
    LET c == Put(st.cur, p.ticker, Get(st.cur, p.ticker) + Sign(p.side) * q)
    IN  [st EXCEPT !.cur = c,
                   !.orders = Put(st.orders, p.ticker,
                                  Get(final_target, p.ticker) - Get(c, p.ticker))]

(* lines 966-1023 for one resting order; f is the failure of its status query *)
PollOne(st, p, f) ==
    LET o == vorders[p.order_id]
    IN  IF f = "err"
        THEN [st EXCEPT !.still = Append(@, p),
                        !.errs = Put(@, p.ticker, "status_check_failed")]
        ELSE IF f = "err2011_trades"
        THEN [st EXCEPT !.raised = TRUE]
        ELSE IF f = "err2011"
        THEN IF o.exec > 0 THEN Credit(st, p, o.exec)
             ELSE [st EXCEPT !.errs = Put(@, p.ticker, "order_missing")]
        ELSE IF o.st = "NEW"
        THEN [st EXCEPT !.still = Append(@, p)]
        ELSE IF o.st = "FILLED"
        THEN Credit(st, p, o.exec)
        ELSE IF o.st = "PARTIALLY_FILLED"
        THEN Credit([st EXCEPT !.still = Append(@, [p EXCEPT !.qty = @ - o.exec])],
                    p, o.exec)
        ELSE LET e == [st EXCEPT !.errs = Put(@, p.ticker, "order_canceled")]
             IN  IF o.exec > 0 THEN Credit(e, p, o.exec) ELSE e

RECURSIVE PollAll(_, _, _, _)
PollAll(st, i, k, f) ==
    IF i > Len(pending_orders) \/ st.raised THEN st
    ELSE PollAll(PollOne(st, pending_orders[i], IF i = k THEN f ELSE "none"),
                 i + 1, k, f)

WaitPass(k, f) ==
    LET st0 == [cur |-> current_positions, orders |-> all_orders,
                errs |-> error_reasons, still |-> <<>>, raised |-> FALSE]
        st == PollAll(st0, 1, k, f)
    IN
    /\ pc = "wait" /\ polls < MaxPolls /\ FaultOK(f)
    /\ k \in 1..Len(pending_orders)
    /\ f = "none" => k = 1
    /\ faults' = faults + (IF f = "none" THEN 0 ELSE 1)
    /\ current_positions' = st.cur
    /\ all_orders' = st.orders
    /\ IF st.raised
       THEN /\ pc' = "returned"
            /\ error_reasons' = Abort(st.errs)
            /\ hist' = [hist EXCEPT !.exit = "exception"]
            /\ UNCHANGED <<pending_orders, polls>>
       ELSE /\ error_reasons' = st.errs
            /\ pending_orders' = st.still
            /\ polls' = polls + 1
            /\ pc' = IF st.still = <<>> THEN "round_end" ELSE "wait"
            /\ UNCHANGED hist
    /\ UNCHANGED <<venue, inputs, final_target, adjusted_to_zero,
                   processed_tickers, phase_orders, todo, available_balance,
                   is_first_day, elapsed, retry>>

(* line 963: the fill-wait window has run out with orders still resting *)
WaitEnd ==
    /\ pc = "wait" /\ polls >= MaxPolls
    /\ pc' = "cancel"
    /\ UNCHANGED <<venue, inputs, engine, faults, hist>>

----------------------------------------------------------------------------
(* lines 1030-1069: cancelling what is left at the end of the window *)

Cancelled(ids) ==
    [i \in 1..Len(vorders) |->
        IF i \in ids THEN [vorders[i] EXCEPT !.st = "CANCELED"] ELSE vorders[i]]

(* the listing at line 1034 fails: open_order_ids is reset but the name     *)
(* open_orders still holds the open-phase dict of line 887, whose keys are  *)
(* strings, so line 1057 raises as soon as that dict is not empty           *)
CancelListingFails ==
    /\ pc = "cancel" /\ faults < MaxFaults
    /\ faults' = faults + 1
    /\ IF DOMAIN phase_orders # {}
       THEN /\ pc' = "returned"
            /\ error_reasons' = Abort(error_reasons)
            /\ hist' = [hist EXCEPT !.exit = "exception"]
            /\ UNCHANGED pending_orders
       ELSE /\ pc' = "round_end"
            /\ pending_orders' = <<>>
            /\ UNCHANGED <<error_reasons, hist>>
    /\ UNCHANGED <<venue, inputs, final_target, current_positions, all_orders,
                   adjusted_to_zero, processed_tickers, phase_orders, todo,
                   available_balance, is_first_day, elapsed, polls, retry>>

(* every order open on the venue is cancelled, tracked or not; cancel_order *)
(* reports a failure by its return value, which nobody reads                *)
CancelPhase(K) ==
    /\ pc = "cancel"
    /\ K \subseteq OpenIds
    /\ faults + Cardinality(K) <= MaxFaults
    /\ faults' = faults + Cardinality(K)
    /\ vorders' = Cancelled(OpenIds \ K)
    /\ pending_orders' = <<>>
    /\ pc' = "round_end"
    /\ UNCHANGED <<vpos, vbal, inputs, final_target, current_positions,
                   all_orders, adjusted_to_zero, processed_tickers, phase_orders,
                   todo, available_balance, error_reasons, is_first_day, elapsed,
                   polls, retry, hist>>

----------------------------------------------------------------------------
(* lines 1071-1105: end of a round *)

(* lines 1084-1086 *)
is_close_order(cur, tgt, ticker) ==
    /\ ticker \in DOMAIN cur /\ cur[ticker] # 0
    /\ \/ ticker \notin DOMAIN tgt
       \/ Get(tgt, ticker) = 0
       \/ Get(tgt, ticker) * cur[ticker] < 0

(* lines 1089 and 1150 *)
is_open(tgt, ticker) == ticker \in DOMAIN tgt /\ tgt[ticker] # 0

(* line 1093 *)
Pinned(cur, tgt, ticker, qty, info_ok) ==
    LET price == PriceOf[ticker]
        adj == adjust_quantity(ticker, Abs(qty), price,
                               is_close_order(cur, tgt, ticker), info_ok)
    IN  /\ is_open(tgt, ticker)
        /\ ~is_close_order(cur, tgt, ticker)
        /\ (adj.qty = 0 \/ adj.qty * price < PinNotional)

(* the delta set kept as recomputed *)
KeepPinned(orders, pinned) == orders

(* the whole delta set is dropped at the end of the round *)
DropAll(orders, pinned) == EmptyDict

(* line 1100 *)
FilterPinned(orders, pinned) ==
    [t \in (DOMAIN orders) \ pinned |-> orders[t]]

RoundEnd ==
    /\ pc = "round_end"
    /\ \E F \in FaultSets({"positions", "info"}), PF \in SUBSET Symbols :
          LET cur == IF "positions" \in F THEN EmptyDict
                     ELSE StablePositions(vpos)
              req == NonZero(Require(final_target, cur))
              seen == IF is_first_day THEN {} ELSE (DOMAIN req) \ PF
              pin == {t \in seen :
                         Pinned(cur, final_target, t, req[t], "info" \notin F)}
              adjOf(t) == adjust_quantity(t, Abs(req[t]), PriceOf[t],
                              is_close_order(cur, final_target, t),
                              "info" \notin F)
              left == IF is_first_day THEN req
                      ELSE FilterPinned(req, adjusted_to_zero \cup pin)
          IN  /\ faults + Cardinality(F) + Cardinality(PF) <= MaxFaults
              /\ PF \subseteq DOMAIN req
              /\ (PF # {} \/ "info" \in F) => ~is_first_day
              /\ faults' = faults + Cardinality(F) + Cardinality(PF)
              /\ current_positions' = cur
              /\ final_target' =
                     [t \in (DOMAIN final_target) \cup pin |->
                         IF t \in pin THEN Get(cur, t) ELSE final_target[t]]
              /\ adjusted_to_zero' = adjusted_to_zero \cup pin
              /\ error_reasons' =
                     [t \in (DOMAIN error_reasons) \cup pin
                            \cup {x \in seen : adjOf(x).reason # NoReason} |->
                         IF t \in pin THEN "pinned"
                         ELSE IF t \in seen /\ adjOf(t).reason # NoReason
                         THEN adjOf(t).reason
                         ELSE error_reasons[t]]
              /\ all_orders' = left
              /\ elapsed' = elapsed + 1
              /\ IF DOMAIN left = {}
                 THEN /\ pc' = "fb_start"
                      /\ hist' = [hist EXCEPT !.exit = "converged",
                                     !.readFailed = @ \/ ("positions" \in F),
                                     !.last = NoLast]
                 ELSE /\ pc' = "round_start"
                      /\ hist' = [hist EXCEPT
                                     !.readFailed = @ \/ ("positions" \in F),
                                     !.last = NoLast]
    /\ UNCHANGED <<venue, inputs, processed_tickers, phase_orders, todo,
                   pending_orders, available_balance, is_first_day, polls, retry>>

----------------------------------------------------------------------------
(* the venue's books when a quantity trades *)

Min(a, b) == IF a < b THEN a ELSE b

BalanceAfter(symbol, signed) ==
    vbal - (Abs(vpos[symbol] + signed) - Abs(vpos[symbol])) * MarginPerUnit(symbol)

(* what a market order trades: a reduce-only order never passes zero *)
MarketFill(symbol, side, quantity, reduce_only) ==
    IF reduce_only THEN Min(quantity, Abs(vpos[symbol])) ELSE quantity

----------------------------------------------------------------------------
(* TradingEngine.execute_trade, lines 132-232, with                        *)
(* BinanceFuturesClient.place_market_order, lines 177-307                   *)

TradeFaults == {"none", "exception", "price", "positions", "info", "reject", "lost"}

(* execute_trade returning without having written error_reasons *)
UnrecordedResult(ok, reason, fill, sub) ==
    [ok |-> ok, reason |-> NoReason, fill |-> fill, sub |-> sub]

TradeResult(ok, reason, fill, sub) ==
    [ok |-> ok, reason |-> reason, fill |-> fill, sub |-> sub]

execute_trade(symbol, side, quantity, is_close, f) ==
    LET price == PriceOf[symbol]
        target_qty == Get(final_target, symbol)
        rev == \/ side = "BUY" /\ vpos[symbol] <= 0 /\ target_qty > 0
               \/ side = "SELL" /\ vpos[symbol] >= 0 /\ target_qty < 0
        adj == adjust_quantity(symbol, quantity, price, rev \/ is_close,
                               f # "info")
        fill == Sign(side) * MarketFill(symbol, side, adj.qty, is_close)
    IN  IF f = "exception" THEN TradeResult(FALSE, "trade_failed", 0, FALSE)
        ELSE IF f = "price" THEN TradeResult(FALSE, "price_failed", 0, FALSE)
        ELSE IF InsufficientBalance(vbal, quantity, price)
        THEN TradeResult(FALSE, "insufficient_balance", 0, FALSE)
        ELSE IF f = "positions"
        THEN TradeResult(FALSE, "positions_failed", 0, FALSE)
        ELSE IF adj.qty = 0 THEN TradeResult(FALSE, "qty_zero", 0, FALSE)
        ELSE IF InsufficientBalance(vbal, adj.qty, price)
        THEN TradeResult(FALSE, "order_failed", 0, FALSE)
        ELSE IF \/ f = "reject"
                \/ is_close /\ ~Reduces(side, vpos[symbol])
                \/ BalanceAfter(symbol, fill) < 0
        THEN TradeResult(FALSE, "order_failed", 0, TRUE)
        ELSE IF f = "lost" THEN TradeResult(FALSE, "order_failed", fill, TRUE)
        ELSE TradeResult(TRUE, NoReason, fill, TRUE)

(* a fault is drawn only where the call it breaks is reached *)
TradeFaultReached(symbol, side, quantity, is_close, f) ==
    LET r == execute_trade(symbol, side, quantity, is_close, "none")
    IN  CASE f \in {"none", "exception", "price"} -> TRUE
          [] f = "positions" -> r.reason # "insufficient_balance"
          [] f = "info" -> r.reason # "insufficient_balance"
          [] OTHER -> r.ok

Traded(symbol, r) ==
    /\ vpos' = [vpos EXCEPT ![symbol] = @ + r.fill]
    /\ vbal' = BalanceAfter(symbol, r.fill)

----------------------------------------------------------------------------
(* lines 1107-1135: entering the market-order fallback *)

FbStart ==
    /\ pc = "fb_start"
    /\ \E F \in FaultSets({"positions"}) :
          LET cur == IF "positions" \in F THEN EmptyDict
                     ELSE StablePositions(vpos)
              remaining_require == Require(final_target, cur)
              rest == DOMAIN NonZero(remaining_require)
          IN  /\ faults' = faults + Cardinality(F)
              /\ current_positions' = cur
              /\ hist' = [hist EXCEPT !.readFailed = @ \/ ("positions" \in F),
                                      !.residual = rest, !.last = NoLast]
              /\ IF rest = {}
                 THEN /\ pc' = "returned"
                      /\ UNCHANGED <<phase_orders, todo>>
                 ELSE /\ phase_orders' = remaining_require
                      /\ IF is_first_day
                         THEN pc' = "fb_refresh" /\ UNCHANGED todo
                         ELSE pc' = "fb_close"
                              /\ todo' = DOMAIN remaining_require
    /\ UNCHANGED <<venue, inputs, final_target, all_orders, adjusted_to_zero,
                   processed_tickers, pending_orders, available_balance,
                   error_reasons, is_first_day, elapsed, polls, retry>>

(* lines 1120-1131: full closes first *)
FbClose(t, f) ==
    LET cur == Get(current_positions, t)
        side == IF cur < 0 THEN "BUY" ELSE "SELL"
        r == execute_trade(t, side, Abs(cur), TRUE, f)
    IN
    /\ pc = "fb_close" /\ t \in todo /\ t = NextKey(todo) /\ FaultOK(f)
    /\ todo' = todo \ {t}
    /\ faults' = faults + (IF f = "none" THEN 0 ELSE 1)
    /\ IF t \in DOMAIN current_positions /\ cur # 0 /\ Get(final_target, t) = 0
       THEN /\ TradeFaultReached(t, side, Abs(cur), TRUE, f)
            /\ Traded(t, r)
            /\ error_reasons' = IF r.reason = NoReason THEN error_reasons
                                ELSE Put(error_reasons, t, r.reason)
            /\ hist' = [hist EXCEPT
                          !.last = Last("fb_close", t, TRUE, Abs(cur), PriceOf[t],
                                        vbal, r.sub, r.reason),
                          !.fbSub[t] = @ + (IF r.sub THEN 1 ELSE 0),
                          !.fbErr = IF r.reason = NoReason THEN @
                                    ELSE @ \cup {t}]
       ELSE /\ f = "none"
            /\ hist' = [hist EXCEPT !.last = NoLast]
            /\ UNCHANGED <<vpos, vbal, error_reasons>>
    /\ UNCHANGED <<vorders, inputs, pc, final_target, current_positions,
                   all_orders, adjusted_to_zero, processed_tickers, phase_orders,
                   pending_orders, available_balance, is_first_day, elapsed,
                   polls, retry>>

FbCloseDone ==
    /\ pc = "fb_close" /\ todo = {}
    /\ pc' = "fb_refresh"
    /\ hist' = [hist EXCEPT !.last = NoLast]
    /\ UNCHANGED <<venue, inputs, engine, faults>>

(* lines 1133-1134: the balance is read again, outside any local handler *)
FbRefresh ==
    /\ pc = "fb_refresh"
    /\ \E F \in FaultSets({"account"}) :
          /\ faults' = faults + Cardinality(F)
          /\ IF "account" \in F
             THEN /\ pc' = "returned"
                  /\ error_reasons' = Abort(error_reasons)
                  /\ hist' = [hist EXCEPT !.fbAborted = TRUE,
                                          !.readFailed = TRUE]
                  /\ UNCHANGED <<available_balance, todo>>
             ELSE /\ pc' = "fb_open"
                  /\ available_balance' = vbal
                  /\ todo' = DOMAIN phase_orders
                  /\ hist' = [hist EXCEPT !.fbRead = TRUE]
                  /\ UNCHANGED error_reasons
    /\ UNCHANGED <<venue, inputs, final_target, current_positions, all_orders,
                   adjusted_to_zero, processed_tickers, phase_orders,
                   pending_orders, is_first_day, elapsed, polls, retry>>

(* a market order that opens or enlarges the position held on the venue *)
Increases(t, side) == is_open(final_target, t) /\ Sign(side) * vpos[t] >= 0

(* a market order that closes the whole position of a symbol without target *)
FullClose(t) == Get(final_target, t) = 0 /\ vpos[t] # 0

(* lines 1136-1177: one iteration of the second fallback loop *)
FbFaults == TradeFaults \cup {"price1", "info1"}

FbOpen(t, f) ==
    LET qty == phase_orders[t]
        side == IF qty > 0 THEN "BUY" ELSE "SELL"
        price == PriceOf[t]
        opening == is_open(final_target, t)
        adj == adjust_quantity(t, Abs(qty), price, ~opening, f # "info1")
        noted == Noted(error_reasons, t, adj)
        r == execute_trade(t, side, adj.qty, ~opening, f)
        L(sub, why) == Last("fb_open", t, ~opening, adj.qty, price,
                            available_balance, sub, why)
        refused(why) ==
            /\ error_reasons' = Put(noted, t, why)
            /\ hist' = [hist EXCEPT !.last = L(FALSE, why), !.fbErr = @ \cup {t}]
            /\ UNCHANGED <<vpos, vbal, current_positions, available_balance>>
    IN
    /\ pc = "fb_open" /\ t \in todo /\ t = NextKey(todo) /\ FaultOK(f)
    /\ todo' = todo \ {t}
    /\ faults' = faults + (IF f = "none" THEN 0 ELSE 1)
    /\ IF qty = 0
       THEN /\ f = "none"
            /\ hist' = [hist EXCEPT !.last = NoLast]
            /\ UNCHANGED <<vpos, vbal, current_positions, available_balance,
                           error_reasons>>
       ELSE IF t \notin valid_symbols
       THEN f = "none" /\ refused("not_tradable")
       ELSE IF f = "price1" THEN refused("price_failed")
       ELSE IF adj.qty = 0
       THEN f \in {"none", "info1"} /\ refused("qty_zero")
       ELSE IF InsufficientBalance(available_balance, adj.qty, price)
       THEN f = "none" /\ refused("insufficient_balance")
       ELSE /\ f \in TradeFaults
            /\ TradeFaultReached(t, side, adj.qty, ~opening, f)
            /\ Traded(t, r)
            /\ hist' = [hist EXCEPT !.last = L(r.sub, r.reason),
                           !.fbSub[t] = @ + (IF r.sub THEN 1 ELSE 0),
                           !.fbErr = IF r.reason = NoReason THEN @
                                    ELSE @ \cup {t},
                           !.fbOpened = @ \/ (r.sub /\ Increases(t, side)),
                           !.fbUnread = @ \/ (r.sub /\ Increases(t, side)
                                                 /\ ~hist.fbRead),
                           !.fbLate = @ \/ (r.sub /\ hist.fbOpened
                                               /\ FullClose(t))]
            /\ IF r.ok
               THEN /\ current_positions' =
                           Put(current_positions, t,
                               Get(current_positions, t) + Sign(side) * adj.qty)
                    /\ available_balance' =
                           available_balance - margin_required(adj.qty, price)
                    /\ error_reasons' = noted
               ELSE /\ error_reasons' = IF r.reason = NoReason THEN noted
                                       ELSE Put(noted, t, r.reason)
                    /\ UNCHANGED <<current_positions, available_balance>>
    /\ UNCHANGED <<vorders, inputs, pc, final_target, all_orders,
                   adjusted_to_zero, processed_tickers, phase_orders,
                   pending_orders, is_first_day, elapsed, polls, retry>>

(* lines 1179-1212: final snapshot; the account read at 1196 is unguarded *)
FbDone ==
    /\ pc = "fb_open" /\ todo = {}
    /\ \E F \in FaultSets({"positions", "account"}) :
          /\ faults' = faults + Cardinality(F)
          /\ current_positions' = IF "positions" \in F THEN EmptyDict
                                  ELSE StablePositions(vpos)
          /\ error_reasons' = IF "account" \in F THEN Abort(error_reasons)
                              ELSE error_reasons
          /\ hist' = [hist EXCEPT !.readFailed = @ \/ F # {}, !.last = NoLast]
    /\ pc' = "returned"
    /\ UNCHANGED <<venue, inputs, final_target, all_orders, adjusted_to_zero,
                   processed_tickers, phase_orders, todo, pending_orders,
                   available_balance, is_first_day, elapsed, polls, retry>>

----------------------------------------------------------------------------
(* the venue: resting orders trade or lapse while the engine waits *)

EnvPcs == {"wait", "round_start"}

VenueFill(i, n) ==
    LET o == vorders[i]
        signed == Sign(o.side) * n
    IN
    /\ pc \in EnvPcs
    /\ i \in OpenIds
    /\ n \in {1, o.qty - o.exec}
    /\ o.ro => Reduces(o.side, vpos[o.sym]) /\ n <= Abs(vpos[o.sym])
    /\ BalanceAfter(o.sym, signed) >= 0
    /\ vpos' = [vpos EXCEPT ![o.sym] = @ + signed]
    /\ vbal' = BalanceAfter(o.sym, signed)
    /\ vorders' = [vorders EXCEPT ![i].exec = @ + n,
                                  ![i].st = IF o.exec + n = o.qty THEN "FILLED"
                                            ELSE "PARTIALLY_FILLED"]
    /\ UNCHANGED <<inputs, pc, engine, faults, hist>>

VenueExpire(i) ==
    /\ pc = "wait" /\ faults < MaxFaults
    /\ i \in OpenIds
    /\ faults' = faults + 1
    /\ vorders' = [vorders EXCEPT ![i].st = "EXPIRED"]
    /\ UNCHANGED <<vpos, vbal, inputs, pc, engine, hist>>

----------------------------------------------------------------------------

Next ==
    \/ Start
    \/ RoundStart
    \/ \E t \in Symbols, f \in StepFaults : CloseStep(t, f)
    \/ CloseDone
    \/ \E t \in Symbols, f \in StepFaults : OpenStep(t, f)
    \/ OpenDone
    \/ \E f \in StepFaults : RetryStep(f)
    \/ RetryGiveUp
    \/ \E k \in 1..MaxOrders, f \in PollFaults : WaitPass(k, f)
    \/ WaitEnd
    \/ CancelListingFails
    \/ \E K \in SUBSET (1..MaxOrders) : CancelPhase(K)
    \/ RoundEnd
    \/ FbStart
    \/ \E t \in Symbols, f \in TradeFaults : FbClose(t, f)
    \/ FbCloseDone
    \/ FbRefresh
    \/ \E t \in Symbols, f \in FbFaults : FbOpen(t, f)
    \/ FbDone
    \/ \E i \in 1..MaxOrders, n \in 1..Rules["A"].maxQty : VenueFill(i, n)
    \/ \E i \in 1..MaxOrders : VenueExpire(i)

Spec == Init /\ [][Next]_vars

----------------------------------------------------------------------------
(* Properties of the reconciliation loop and of the fallback *)

LoopPcs == {"round_start", "close", "open", "retry", "wait", "cancel", "round_end"}

(* C1: the reconciliation loop is left only because the recomputed delta   *)
(* set is empty or because the round-start check finds the run budget       *)
(* spent, and control then reaches the market-order fallback                *)
C1_LoopExitsToFallback ==
    (pc \notin LoopPcs /\ pc # "start" /\ hist.exit # "no_loop")
        => hist.exit \in {"converged", "timeout"}

(* C2: when the run returns without the "global" entry, every symbol      *)
(* without an entry in the error map holds exactly its target position      *)
C2_Convergence ==
    (pc = "returned" /\ "global" \notin DOMAIN error_reasons)
        => \A t \in Symbols :
              t \notin DOMAIN error_reasons => vpos[t] = Get(final_target, t)

(* C4: a failed read of the account balance or of the positions aborts the *)
(* run at once and leaves the "global" entry in the error map               *)
C4_ReadFailureIsFatal ==
    hist.readFailed => (pc = "returned" /\ "global" \in DOMAIN error_reasons)

(* C5, as the claim states it: once the fallback has run, every symbol     *)
(* whose residual was not zero has had a market order submitted or an       *)
(* error reason recorded by the fallback                                    *)
C5_Original ==
    pc = "returned"
        => \A t \in hist.residual : hist.fbSub[t] > 0 \/ t \in hist.fbErr

(* C5, amended: ... unless the balance read that precedes the second pass  *)
(* failed, in which case the run ends with the "global" entry               *)
C5_FallbackNeverSilent ==
    pc = "returned"
        => \A t \in hist.residual :
              \/ hist.fbSub[t] > 0
              \/ t \in hist.fbErr
              \/ hist.fbAborted /\ "global" \in DOMAIN error_reasons

C5_Witness ==
    /\ pc = "returned" /\ ~hist.fbAborted
    /\ \E t \in hist.residual : hist.fbSub[t] > 0
    /\ \E t \in hist.residual : hist.fbSub[t] = 0 /\ t \in hist.fbErr

(* C6: no order that only reduces a position is refused by the engine for  *)
(* lack of available balance, in a round or in the fallback                 *)
C6_NoMarginCheckOnClose ==
    ~(/\ hist.last.kind # "none"
      /\ hist.last.reverse
      /\ hist.last.reason = "insufficient_balance")

(* C7: a symbol the open phase handles as a non-reverse open whose margin   *)
(* exceeds the balance available when it is processed has no order          *)
(* submitted for it in that round and has an insufficient-balance reason    *)
C7_InsufficientBalanceSkips ==
    pc \in {"open", "retry", "wait", "cancel", "round_end"}
        => \A t \in hist.short :
              /\ t \notin hist.placed
              /\ t \in DOMAIN error_reasons
              /\ error_reasons[t] = "insufficient_balance"

(* C8: a pinned symbol never comes back into the delta set of a later      *)
(* round, nor into the close or open orders derived from it, whatever       *)
(* happens to its position on the venue                                     *)
C8_PinIsMonotonic ==
    \A t \in adjusted_to_zero :
        /\ t \notin DOMAIN all_orders
        /\ pc \in LoopPcs \ {"round_start"} => t \notin hist.placed
        /\ pc \in {"close", "open", "retry"} => t \notin DOMAIN phase_orders

C8_Witness ==
    /\ pc = "open"
    /\ \E t \in adjusted_to_zero : vpos[t] # Get(final_target, t)

(* C9: after a failed attempt on a symbol in the close phase, the open     *)
(* phase of the same round makes no submission attempt for that symbol      *)
C9_NoReattempt == hist.reattempt = {}

(* a run that starts flat with the whole balance free, has the single *)
(* long candidate A and meets no failure                               *)
FlatSingleTarget ==
    /\ pc # "start" /\ is_first_day /\ faults = 0
    /\ long_candidates = <<"A">> /\ short_candidates = <<>>
    /\ vbal + UsedMargin(vpos) = TotalBalance

(* the normalised quantity of the single slot *)
SlotQty == BuildTargets(<<"A">>, <<>>, EmptyDict, Symbols).tgt["A"]

(* C19: flat start, one target A of quantity q: when the open phase of *)
(* the first round is over exactly one maker order is out, BUY q of A  *)
(* placed at the reference price; when the run has ended and that      *)
(* order is filled, the position is q and no other order was sent      *)
C19_SingleOpenFromFlat ==
    FlatSingleTarget =>
        /\ hist.last.kind = "open" /\ hist.last.submitted
              => /\ hist.last.ticker = "A" /\ hist.last.adj = SlotQty
                 /\ hist.last.price = PriceOf["A"] /\ ~hist.last.reverse
        /\ pc \in {"wait", "cancel", "round_end"} /\ elapsed = 0
              => /\ Len(vorders) = 1
                 /\ vorders[1].sym = "A" /\ vorders[1].side = "BUY"
                 /\ vorders[1].qty = SlotQty /\ ~vorders[1].ro
        /\ pc = "returned" /\ Len(vorders) >= 1 /\ vorders[1].st = "FILLED"
              => /\ vpos["A"] = SlotQty /\ vpos["B"] = 0
                 /\ Len(vorders) = 1
                 /\ \A t \in Symbols : hist.fbSub[t] = 0

C19_Witness ==
    /\ FlatSingleTarget /\ pc = "returned"
    /\ Len(vorders) = 1 /\ vorders[1].st = "FILLED" /\ vorders[1].side = "BUY"
    /\ vpos["A"] = SlotQty /\ SlotQty > 0

(* the maker order a step has just sent to the venue *)
Sent == vorders'[Len(vorders')]

(* t is held without target, and its delta is the one of that position *)
HeldWithoutTarget(cur, t) ==
    /\ Get(cur, t) # 0 /\ Get(final_target, t) = 0
    /\ Get(all_orders, t) = Get(final_target, t) - Get(cur, t)

FreshDelta(cur, t) == Get(final_target, t) - Get(cur, t)

(* C21: the close orders of a round are the symbols that the positions *)
(* and the targets of that round classify as closes, whatever deltas   *)
(* earlier steps left behind                                           *)
C21_ClassFollowsPositionAndTarget ==
    [][ pc = "round_start" /\ pc' = "close" =>
          \A t \in Symbols :
              t \in DOMAIN phase_orders'
                  <=> /\ FreshDelta(current_positions', t) # 0
                      /\ IsCloseOrder(current_positions', final_target, t,
                                      FreshDelta(current_positions', t)) ]_vars

(* C12: in the fallback no market order that closes the whole position of *)
(* a symbol without target is submitted after one that opens or enlarges   *)
(* a position, and no opening order is submitted before the balance has    *)
(* been read again                                                         *)
C12_ClosesBeforeOpens == ~hist.fbLate /\ ~hist.fbUnread

(* C11: the fallback submits at most one market order per symbol in a run *)
C11_OneFallbackOrderPerSymbol == \A t \in Symbols : hist.fbSub[t] <= 1

----------------------------------------------------------------------------
(* TradingEngine.run, lines 1814-2102: which handler, if any, receives an  *)
(* exception raised at each call the method makes, in program order.        *)
(* guard: "callee" the called method catches it itself and returns;         *)
(* "inner" the try of lines 1898-1906; "block" the try of lines 2034-2074;  *)
(* "outer" the try of lines 1828-2089; "nested" the try of lines 2083-2087  *)
(* inside the outer handler; "return" is the early return of line 1839.     *)
(* err is the entry the failure leaves in the error map.                    *)

RunSite(name, guard, err) == [name |-> name, guard |-> guard, err |-> err]

RunBody ==
    << RunSite("cancel_all_open_orders", "callee", NoReason),
       RunSite("funding_file", "return", "file_not_found"),
       RunSite("read_csv", "outer", "system_error"),
       RunSite("load_blacklist", "callee", NoReason),
       RunSite("get_account_info_before", "outer", "system_error"),
       RunSite("adjust_or_open_positions", "callee", "global"),
       RunSite("futures_position_information", "inner",
               "position_adjustment_failed"),
       RunSite("save_positions_to_csv", "callee", NoReason),
       RunSite("get_account_info_after", "outer", "system_error"),
       RunSite("get_symbol_price", "callee", NoReason),
       RunSite("get_trade_history", "callee", NoReason),
       RunSite("trade_records", "outer", "system_error"),
       RunSite("write_account_info", "outer", "system_error"),
       RunSite("process_trade_commissions", "block", NoReason),
       RunSite("process_trade_realized_pnl", "block", NoReason) >>

RunHandler ==
    << RunSite("handler_position_information", "nested", NoReason),
       RunSite("handler_save_positions", "callee", NoReason) >>

RunFinally ==
    << RunSite("save_to_json", "callee", NoReason),
       RunSite("calculate_and_append_returns", "callee", NoReason),
       RunSite("write_to_excel", "callee", NoReason) >>

RunSites == RunBody \o RunHandler \o RunFinally

FirstHandler == Len(RunBody) + 1
FirstFinally == Len(RunBody) + Len(RunHandler) + 1

SiteAt(name) == CHOOSE i \in 1..Len(RunSites) : RunSites[i].name = name

(* no handler at all: the exception leaves run *)
Unguarded(site) == "none"

Guard(site) == site.guard

(* where control goes when the call at i completes *)
AfterSite(i) ==
    IF i = Len(RunSites) THEN "run_returned"
    ELSE IF i = Len(RunBody) THEN RunSites[FirstFinally].name
    ELSE IF i = FirstFinally - 1 THEN RunSites[FirstFinally].name
    ELSE RunSites[i + 1].name

(* where control goes when the call at i raises *)
RaisedAt(i) ==
    LET g == Guard(RunSites[i])
    IN  CASE g = "callee" -> AfterSite(i)
          [] g = "return" -> RunSites[FirstFinally].name
          [] g = "inner" -> "get_account_info_after"
          [] g = "block" -> RunSites[FirstFinally].name
          [] g = "outer" ->
                 IF i <= SiteAt("funding_file") THEN RunSites[FirstHandler].name
                 ELSE RunSites[FirstFinally].name
          [] g = "nested" -> RunSites[FirstFinally].name
          [] OTHER -> "run_propagated"

RunPcs == {RunSites[i].name : i \in 1..Len(RunSites)}

InitRun ==
    /\ vpos = [s \in Symbols |-> 0]
    /\ vbal = TotalBalance
    /\ vorders = <<>>
    /\ long_candidates = <<"A">> /\ short_candidates = <<"B">>
    /\ scan = <<"A", "B">>
    /\ pc = RunSites[1].name
    /\ final_target = EmptyDict
    /\ current_positions = EmptyDict
    /\ all_orders = EmptyDict
    /\ adjusted_to_zero = {}
    /\ processed_tickers = {}
    /\ phase_orders = EmptyDict
    /\ todo = {}
    /\ pending_orders = <<>>
    /\ available_balance = 0
    /\ error_reasons = EmptyDict
    /\ is_first_day = FALSE
    /\ elapsed = 0
    /\ polls = 0
    /\ retry = NoRetry
    /\ faults = 0
    /\ hist = [failed |-> {}]

RunFrame ==
    UNCHANGED <<venue, inputs, final_target, current_positions, all_orders,
                adjusted_to_zero, processed_tickers, phase_orders, todo,
                pending_orders, available_balance, is_first_day, elapsed,
                polls, retry>>

(* the call at pc completes *)
RunCall ==
    /\ pc \in RunPcs
    /\ pc' = AfterSite(SiteAt(pc))
    /\ UNCHANGED <<error_reasons, faults, hist>>
    /\ RunFrame

(* the call at pc fails *)
RunRaise ==
    LET i == SiteAt(pc)
        site == RunSites[i]
        errs == IF site.err = NoReason THEN error_reasons
                ELSE Put(error_reasons, site.err, site.err)
    IN
    /\ pc \in RunPcs
    /\ pc' = RaisedAt(i)
    /\ error_reasons' = IF Guard(site) = "none" THEN error_reasons ELSE errs
    /\ faults' = faults + 1
    /\ hist' = [hist EXCEPT !.failed = @ \cup {pc}]
    /\ RunFrame

NextRun == RunCall \/ RunRaise

SpecRun == InitRun /\ [][NextRun]_vars

(* C3: whatever calls fail, run ends by returning the error map, which     *)
(* holds an entry for every failure that cut the method short               *)
C3_RunNeverPropagates ==
    /\ pc # "run_propagated"
    /\ pc = "run_returned" =>
          \A n \in hist.failed :
              RunSites[SiteAt(n)].err # NoReason
                  => RunSites[SiteAt(n)].err \in DOMAIN error_reasons

C3_Witness ==
    /\ pc = "run_returned"
    /\ {"get_account_info_after", "write_to_excel"} \subseteq hist.failed
    /\ "system_error" \in DOMAIN error_reasons

----------------------------------------------------------------------------
(* The waits around one order: BinanceClient.place_postonly_order and      *)
(* place_market_order poll the venue after the order is created, the       *)
(* engine waits for a resting order to fill, and handle_postonly_error     *)
(* retries a refused placement.  retry holds the request, vorders the      *)
(* order once created, polls the passes of a counted wait, and hist.tick   *)
(* the parity of the clock.                                                 *)

Answers == {"ok", "empty", "error"}

CreateAnswers == {"NEW", "FILLED", "reject5022", "reject"}

PollEnd == {"done", "failed"}

Requests ==
    {[Retry(s, sd, q, c, "done") EXCEPT !.on = FALSE] :
         s \in Symbols, sd \in {"BUY", "SELL"}, q \in 1..MaxPos, c \in BOOLEAN}

InitPoll ==
    /\ vpos = [s \in Symbols |-> 0]
    /\ vbal = TotalBalance
    /\ vorders = <<>>
    /\ long_candidates = <<"A">> /\ short_candidates = <<"B">>
    /\ scan = <<"A", "B">>
    /\ pc \in {"po_create", "mk_create"}
    /\ final_target = EmptyDict
    /\ current_positions = EmptyDict
    /\ all_orders = EmptyDict
    /\ adjusted_to_zero = {}
    /\ processed_tickers = {}
    /\ phase_orders = EmptyDict
    /\ todo = {}
    /\ pending_orders = <<>>
    /\ available_balance = TotalBalance
    /\ error_reasons = EmptyDict
    /\ is_first_day = FALSE
    /\ elapsed = 0
    /\ polls = 0
    /\ retry \in Requests
    /\ faults = 0
    /\ hist = [tick |-> 0]

PollFrame ==
    UNCHANGED <<vpos, vbal, inputs, final_target, current_positions,
                all_orders, adjusted_to_zero, processed_tickers, phase_orders,
                todo, available_balance, is_first_day, elapsed, faults>>

Tick == hist' = [hist EXCEPT !.tick = 1 - @]

Created(st) ==
    <<[NewOrder(retry.ticker, retry.side, retry.qty, retry.is_close)
          EXCEPT !.st = st, !.exec = IF st = "FILLED" THEN retry.qty ELSE 0]>>

(* binance_client.py line 376: the venue accepts or refuses the order *)
PoCreate(a) ==
    /\ pc = "po_create"
    /\ IF a \in {"NEW", "FILLED"}
       THEN /\ vorders' = Created(a)
            /\ pc' = "po_status"
            /\ UNCHANGED <<retry, error_reasons>>
       ELSE IF retry.on \/ a = "reject5022"
       THEN /\ retry' = [retry EXCEPT !.on = TRUE]
            /\ pc' = "retry"
            /\ UNCHANGED <<vorders, error_reasons>>
       ELSE /\ pc' = "failed"
            /\ error_reasons' = Put(error_reasons, retry.ticker, "postonly_failed")
            /\ UNCHANGED <<vorders, retry>>
    /\ UNCHANGED <<pending_orders, polls, hist>>
    /\ PollFrame

(* binance_client.py lines 382-390: poll the order's status until the    *)
(* venue returns one                                                      *)
PoStatus(a) ==
    /\ pc = "po_status"
    /\ IF a = "ok"
       THEN /\ pc' = IF vorders[1].st = "FILLED" THEN "po_trades" ELSE "placed"
            /\ UNCHANGED hist
       ELSE /\ Tick
            /\ UNCHANGED pc
    /\ UNCHANGED <<vorders, pending_orders, error_reasons, polls, retry>>
    /\ PollFrame

(* binance_client.py lines 394-402: poll the order's trades until the    *)
(* venue returns some                                                     *)
PoTrades(a) ==
    /\ pc = "po_trades"
    /\ IF a = "ok"
       THEN /\ pc' = "placed"
            /\ UNCHANGED hist
       ELSE /\ Tick
            /\ UNCHANGED pc
    /\ UNCHANGED <<vorders, pending_orders, error_reasons, polls, retry>>
    /\ PollFrame

(* lines 940-944 and 1342-1347: the placed order joins the pending list *)
Placed ==
    /\ pc = "placed"
    /\ pending_orders' = Append(pending_orders,
           Pending(retry.ticker, 1, retry.side, retry.qty))
    /\ pc' = "wait"
    /\ polls' = 0
    /\ UNCHANGED <<vorders, error_reasons, retry, hist>>
    /\ PollFrame

(* lines 963-1028: one pass of the 30 second fill-wait *)
FillWait(a) ==
    /\ pc = "wait" /\ polls < MaxPolls /\ a \in {"ok", "error"}
    /\ IF a = "ok" /\ vorders[1].st = "FILLED"
       THEN /\ pending_orders' = <<>>
            /\ pc' = "done"
            /\ UNCHANGED polls
       ELSE /\ polls' = polls + 1
            /\ UNCHANGED <<pc, pending_orders>>
    /\ UNCHANGED <<vorders, error_reasons, retry, hist>>
    /\ PollFrame

(* line 963: the window is over *)
FillWaitEnd ==
    /\ pc = "wait" /\ polls >= MaxPolls
    /\ pc' = "done"
    /\ UNCHANGED <<vorders, pending_orders, error_reasons, polls, retry, hist>>
    /\ PollFrame

(* the venue fills the resting order *)
FillResting ==
    /\ pc = "wait" /\ vorders[1].st = "NEW"
    /\ vorders' = <<[vorders[1] EXCEPT !.st = "FILLED", !.exec = vorders[1].qty]>>
    /\ UNCHANGED <<pc, pending_orders, error_reasons, polls, retry, hist>>
    /\ PollFrame

(* lines 1321-1353: one pass of the 60 second retry loop *)
RetryPass(a) ==
    /\ pc = "retry" /\ retry.n < MaxRetries /\ a \in {"ok", "error"}
    /\ retry' = [retry EXCEPT !.n = @ + 1]
    /\ pc' = IF a = "ok" THEN "po_create" ELSE "retry"
    /\ UNCHANGED <<vorders, pending_orders, error_reasons, polls, hist>>
    /\ PollFrame

(* lines 1321 and 1355-1357: the retry window is over *)
RetryEnd ==
    /\ pc = "retry" /\ retry.n >= MaxRetries
    /\ pc' = "failed"
    /\ error_reasons' = Put(error_reasons, retry.ticker, "postonly_failed")
    /\ UNCHANGED <<vorders, pending_orders, polls, retry, hist>>
    /\ PollFrame

(* binance_client.py line 244: the market order is created or refused *)
MkCreate(a) ==
    /\ pc = "mk_create" /\ a \in {"FILLED", "NEW", "reject"}
    /\ IF a = "reject"
       THEN pc' = "failed" /\ UNCHANGED vorders
       ELSE pc' = "mk_status" /\ vorders' = Created(a)
    /\ UNCHANGED <<pending_orders, error_reasons, polls, retry, hist>>
    /\ PollFrame

(* binance_client.py lines 254-268 and 273-285: the two counted polls of *)
(* place_market_order                                                     *)
MkPoll(a) ==
    /\ pc \in {"mk_status", "mk_trades"} /\ polls < MaxPolls
    /\ IF a = "ok"
       THEN /\ pc' = IF pc = "mk_trades" THEN "done"
                     ELSE IF vorders[1].st = "FILLED" THEN "mk_trades"
                     ELSE "failed"
            /\ polls' = 0
       ELSE /\ polls' = polls + 1
            /\ UNCHANGED pc
    /\ UNCHANGED <<vorders, pending_orders, error_reasons, retry, hist>>
    /\ PollFrame

(* binance_client.py lines 265-268 and 284-286: the attempts are used up *)
MkGiveUp ==
    /\ pc \in {"mk_status", "mk_trades"} /\ polls >= MaxPolls
    /\ pc' = IF pc = "mk_status" THEN "failed" ELSE "done"
    /\ UNCHANGED <<vorders, pending_orders, error_reasons, polls, retry, hist>>
    /\ PollFrame

NextPoll ==
    \/ \E a \in CreateAnswers : PoCreate(a)
    \/ \E a \in Answers : PoStatus(a)
    \/ \E a \in Answers : PoTrades(a)
    \/ Placed
    \/ \E a \in Answers : FillWait(a)
    \/ FillWaitEnd
    \/ FillResting
    \/ \E a \in Answers : RetryPass(a)
    \/ RetryEnd
    \/ \E a \in CreateAnswers : MkCreate(a)
    \/ \E a \in Answers : MkPoll(a)
    \/ MkGiveUp

(* the process keeps running: some step is always taken when one is possible *)
SpecPoll == InitPoll /\ [][NextPoll]_vars /\ WF_vars(NextPoll)

CountedWaits == {"wait", "retry", "mk_status", "mk_trades"}

UncountedWaits == {"po_status", "po_trades"}

(* C10: every wait ends, whatever the venue answers *)
C10_EveryWaitEnds ==
    \A w \in CountedWaits \cup UncountedWaits : (pc = w) ~> (pc # w)

(* the waits that count their passes or read the clock do end *)
CountedWaitsEnd == \A w \in CountedWaits : (pc = w) ~> (pc # w)

----------------------------------------------------------------------------
(* TradingEngine.adjust_quantity called once on drawn arguments and rules *)

(* largest raw quantity and limit drawn, in units of the finest grid *)
MaxRaw == 9

StepSizes == {1, 2, 4}
Prices == {1, 3}
Notionals == {0, 5}

(* rules a venue delivers: the precision can write the step, the limits *)
(* lie on the grid of the step                                          *)
RuleSets ==
    {r \in [stepSize : StepSizes, quantum : StepSizes, minQty : 1..MaxRaw,
            maxQty : 1..MaxRaw, minNotional : Notionals] :
        /\ r.stepSize % r.quantum = 0
        /\ r.minQty % r.stepSize = 0
        /\ r.maxQty % r.stepSize = 0
        /\ r.minQty <= r.maxQty}

AdjustCalls ==
    [symbol : {"A"}, quantity : 0..MaxRaw, price : Prices, is_close : BOOLEAN,
     info : InfoKinds, r : RuleSets]

NoResult == [qty |-> 0, reason |-> NoReason, raised |-> FALSE]

InitAdjust ==
    /\ vpos = [s \in Symbols |-> 0]
    /\ vbal = TotalBalance
    /\ vorders = <<>>
    /\ long_candidates = <<"A">> /\ short_candidates = <<"B">>
    /\ scan = <<"A", "B">>
    /\ pc = "adjust"
    /\ final_target = EmptyDict
    /\ current_positions = EmptyDict
    /\ all_orders = EmptyDict
    /\ adjusted_to_zero = {}
    /\ processed_tickers = {}
    /\ phase_orders = EmptyDict
    /\ todo = {}
    /\ pending_orders = <<>>
    /\ available_balance = TotalBalance
    /\ error_reasons = EmptyDict
    /\ is_first_day = FALSE
    /\ elapsed = 0
    /\ polls = 0
    /\ retry \in AdjustCalls
    /\ faults = 0
    /\ hist = [result |-> NoResult]

AdjustFrame ==
    UNCHANGED <<venue, inputs, final_target, current_positions, all_orders,
                adjusted_to_zero, processed_tickers, phase_orders, todo,
                pending_orders, available_balance, is_first_day, elapsed,
                polls, retry, faults>>

(* lines 93-130: the call returns and leaves its reason in error_reasons *)
AdjustCall ==
    LET out == adjust_under(retry.info, retry.r, retry.quantity, retry.price,
                            retry.is_close)
    IN  /\ pc = "adjust"
        /\ pc' = IF out.raised THEN "raised" ELSE "adjusted"
        /\ error_reasons' = Noted(error_reasons, retry.symbol, out)
        /\ hist' = [hist EXCEPT !.result = out]
        /\ AdjustFrame

NextAdjust == AdjustCall

SpecAdjust == InitAdjust /\ [][NextAdjust]_vars

AdjustReturned == pc \in {"adjusted", "raised"}

(* C13: the quantity returned is 0, or lies on the grid of stepSize within *)
(* [minQty, maxQty] and, for an order that is not a close, has a notional  *)
(* of at least minNotional                                                 *)
C13_ResultIsTradable ==
    AdjustReturned =>
        \/ hist.result.qty = 0
        \/ /\ hist.result.qty % retry.r.stepSize = 0
           /\ hist.result.qty >= retry.r.minQty
           /\ hist.result.qty <= retry.r.maxQty
           /\ ~retry.is_close =>
                  hist.result.qty * retry.price >= retry.r.minNotional

C13_Witness ==
    /\ pc = "adjusted" /\ ~retry.is_close /\ retry.r.stepSize = 2
    /\ retry.quantity = 3 /\ hist.result.qty = 4 /\ retry.r.minNotional > 0

(* the quantity after rounding and clamping, before the notional is compared *)
Clamped == Clamp(retry.r, Rounded(retry.r, Stepped(retry.r, retry.quantity)))

InfoRead == ~InfoRaises(retry.info, retry.is_close)

(* C14: an order that is not a close and whose adjusted notional is below *)
(* minNotional comes back as 0 with a reason recorded; for a close the    *)
(* result is the same whatever the price and minNotional are              *)
C14_NotionalOnlyWhenOpening ==
    AdjustReturned /\ InfoRead =>
        /\ ~retry.is_close /\ Clamped.qty * retry.price < retry.r.minNotional
              => /\ hist.result.qty = 0
                 /\ retry.symbol \in DOMAIN error_reasons
        /\ retry.is_close =>
              \A p \in Prices, n \in Notionals :
                  adjust_under(retry.info, [retry.r EXCEPT !.minNotional = n],
                               retry.quantity, p, TRUE).qty = hist.result.qty

C14_Witness ==
    /\ pc = "adjusted" /\ retry.info = "ok" /\ retry.is_close
    /\ hist.result.qty > 0
    /\ hist.result.qty * retry.price < retry.r.minNotional

(* C15: a raw quantity whose nearest multiple of stepSize is below minQty *)
(* comes back as 0 with the quantity-too-small reason recorded, for an    *)
(* opening and for a closing order alike                                  *)
C15_TooSmallIsRecorded ==
    /\ AdjustReturned /\ InfoRead
    /\ Stepped(retry.r, retry.quantity) < retry.r.minQty
    => /\ hist.result.qty = 0
       /\ Get(error_reasons, retry.symbol) = "qty_too_small"

(* C16: the call returns a number and never raises, and a result of 0 *)
(* comes with a reason recorded for the symbol                        *)
C16_NeverRaises ==
    /\ pc # "raised"
    /\ AdjustReturned =>
          /\ hist.result.qty \in 0..MaxRaw
          /\ hist.result.qty = 0 => retry.symbol \in DOMAIN error_reasons

C16_Witness ==
    /\ pc = "adjusted" /\ retry.info = "no_symbol" /\ retry.quantity > 0
    /\ hist.result.qty = 0
    /\ Get(error_reasons, retry.symbol) = "adjust_failed"

----------------------------------------------------------------------------
(* The target builder of adjust_or_open_positions, lines 710-766, run once *)
(* on drawn candidate lists, slot counts and venue                         *)

(* number of symbols the candidate lists are drawn from *)
MaxCands == 3

TickerRank == [A |-> 1, B |-> 2, C |-> 3, D |-> 4]

Tickers == {t \in DOMAIN TickerRank : TickerRank[t] <= MaxCands}

SlotCounts == {1, 2}

(* what the venue answers for one symbol *)
TickerKinds == {"ok", "halted", "no_price", "no_info", "tiny"}

(* rules under which the size of one slot is tradable, and rules whose *)
(* minimum notional it does not reach                                  *)
SlotRules(kind) ==
    [stepSize |-> 1, quantum |-> 1, minQty |-> 1, maxQty |-> 3,
     minNotional |-> IF kind = "tiny" THEN 40 ELSE 4]

BuildEnv(kinds, slots) ==
    [trading |-> {t \in Tickers : kinds[t] # "halted"},
     price |-> [t \in Tickers |-> IF kinds[t] = "no_price" THEN 0 ELSE 4],
     info |-> [t \in Tickers |-> IF kinds[t] = "no_info" THEN "fetch_failed"
                                  ELSE "ok"],
     rules |-> [t \in Tickers |-> SlotRules(kinds[t])],
     balance |-> TotalBalance,
     slots |-> slots]

Range(seq) == {seq[i] : i \in 1..Len(seq)}

(* sequences without repetition over the symbols of S *)
RECURSIVE Orderings(_)
Orderings(S) ==
    IF S = {} THEN {<<>>}
    ELSE UNION {{<<t>> \o o : o \in Orderings(S \ {t})} : t \in S}

(* pairs of candidate lists without repetition *)
CandidateLists ==
    UNION {{<<l, sh>> : l \in Orderings(L), sh \in Orderings(Sh)} :
              L \in SUBSET Tickers, Sh \in SUBSET Tickers}

InitBuild ==
    /\ vpos = [s \in Symbols |-> 0]
    /\ vbal = TotalBalance
    /\ vorders = <<>>
    /\ \E c \in CandidateLists :
          (* the ranking file names a symbol once: no symbol is in both lists *)
          /\ Range(c[1]) \cap Range(c[2]) = {}
          /\ long_candidates = c[1] /\ short_candidates = c[2]
    /\ scan = <<"A", "B">>
    /\ pc = "build"
    /\ final_target = EmptyDict
    /\ current_positions = EmptyDict
    /\ all_orders = EmptyDict
    /\ adjusted_to_zero = {}
    /\ processed_tickers = {}
    /\ phase_orders = EmptyDict
    /\ todo = {}
    /\ pending_orders = <<>>
    /\ available_balance = TotalBalance
    /\ error_reasons = EmptyDict
    /\ is_first_day = TRUE
    /\ elapsed = 0
    /\ polls = 0
    /\ retry \in [kinds : [Tickers -> TickerKinds], num_long_pos : SlotCounts,
                  num_short_pos : SlotCounts]
    /\ faults = 0
    /\ hist = [built |-> FALSE]

BuildFrame ==
    UNCHANGED <<venue, inputs, current_positions, all_orders, adjusted_to_zero,
                processed_tickers, phase_orders, todo, pending_orders,
                available_balance, is_first_day, elapsed, polls, retry, faults>>

(* lines 710-766: the long list, then the short list *)
BuildCall ==
    LET env == BuildEnv(retry.kinds, retry.num_long_pos + retry.num_short_pos)
        l == build_side(env, long_candidates, 0, retry.num_long_pos, 1,
                        [tgt |-> EmptyDict, errs |-> error_reasons])
        b == build_side(env, short_candidates, 0, retry.num_short_pos, -1, l)
    IN  /\ pc = "build"
        /\ pc' = "built"
        /\ final_target' = b.tgt
        /\ error_reasons' = b.errs
        /\ hist' = [hist EXCEPT !.built = TRUE]
        /\ BuildFrame

NextBuild == BuildCall

SpecBuild == InitBuild /\ [][NextBuild]_vars

(* a candidate that trades, has a price and a nonzero normalised quantity *)
Eligible(t) ==
    /\ retry.kinds[t] \notin {"halted", "no_price"}
    /\ SlotQuantity(BuildEnv(retry.kinds,
                              retry.num_long_pos + retry.num_short_pos), t).qty > 0

(* the candidates of the list before position i that are eligible *)
EligibleBefore(cands, i) == {j \in 1..(i - 1) : Eligible(cands[j])}

(* the first n eligible candidates of the list *)
FirstEligible(cands, n) ==
    {cands[i] : i \in {j \in 1..Len(cands) :
                          /\ Eligible(cands[j])
                          /\ Cardinality(EligibleBefore(cands, j)) < n}}

(* the candidates the loop passes over before it stops *)
Passed(cands, n) ==
    {cands[i] : i \in {j \in 1..Len(cands) :
                          /\ ~Eligible(cands[j])
                          /\ Cardinality(EligibleBefore(cands, j)) < n}}

----------------------------------------------------------------------------
(* The check before a maker order, lines 859-862 and 929-931 with         *)
(* check_existing_orders 1262-1307: one symbol and side about to be       *)
(* ordered, with orders of earlier rounds still on the venue's book       *)

InitDup ==
    /\ vpos = [s \in Symbols |-> 0]
    /\ vbal = TotalBalance
    /\ vorders \in UNION {[1..n -> [sym : Symbols, side : {"BUY", "SELL"},
                                     qty : {1}, exec : {0},
                                     st : {"NEW", "FILLED", "CANCELED"},
                                     ro : {FALSE}]] : n \in 0..2}
    /\ \A i, j \in OpenIds :
          vorders[i].sym = vorders[j].sym /\ vorders[i].side = vorders[j].side
              => i = j
    /\ long_candidates = <<"A">> /\ short_candidates = <<"B">>
    /\ scan = <<"A", "B">>
    /\ pc = "check"
    /\ final_target = EmptyDict
    /\ current_positions = EmptyDict
    /\ all_orders = EmptyDict
    /\ adjusted_to_zero = {}
    /\ processed_tickers = {}
    /\ phase_orders = EmptyDict
    /\ todo = {}
    /\ pending_orders = <<>>
    /\ available_balance = TotalBalance
    /\ error_reasons = EmptyDict
    /\ is_first_day = FALSE
    /\ elapsed = 0
    /\ polls = 0
    /\ retry \in {Retry(s, sd, 1, FALSE, "open") : s \in Symbols,
                                                    sd \in {"BUY", "SELL"}}
    /\ faults = 0
    /\ hist = [checked |-> "no"]

(* lines 859-862, 929-931: the order is skipped when the check answers *)
(* True; 1305-1307: a check that raised answers False                  *)
DupCheck(api_ok) ==
    /\ pc = "check"
    /\ pc' = IF check_existing_orders(retry.ticker, retry.side, api_ok)
             THEN "skipped" ELSE "place"
    /\ hist' = [checked |-> IF api_ok THEN "done" ELSE "raised"]
    /\ UNCHANGED <<venue, inputs, engine_but_polls, polls, faults>>

(* lines 866-875, 934-941: the maker order is sent and tracked *)
DupPlace ==
    /\ pc = "place"
    /\ pc' = "placed"
    /\ vorders' = Append(vorders, NewOrder(retry.ticker, retry.side, retry.qty,
                                           retry.is_close))
    /\ pending_orders' = Append(pending_orders,
                                Pending(retry.ticker, Len(vorders) + 1,
                                        retry.side, retry.qty))
    /\ UNCHANGED <<vpos, vbal, inputs, final_target, current_positions,
                   all_orders, adjusted_to_zero, processed_tickers, phase_orders,
                   todo, available_balance, error_reasons, is_first_day, elapsed,
                   polls, retry, faults, hist>>

NextDup == (\E api_ok \in BOOLEAN : DupCheck(api_ok)) \/ DupPlace

SpecDup == InitDup /\ [][NextDup]_vars

(* C22: no two orders for the same symbol and side are open on the venue *)
(* at the same time                                                      *)
C22_NoSecondOrderOnSameSide ==
    \A i, j \in OpenIds :
        vorders[i].sym = vorders[j].sym /\ vorders[i].side = vorders[j].side
            => i = j


----------------------------------------------------------------------------
(* The close loop, the retry path and the open loop of one round, lines    *)
(* 837-957 and 1309-1357, with a venue that may fill a resting order while  *)
(* the loops are still running                                              *)

(* the state at line 837 of the first round: lines 678-836 without a fault *)
InitPhases ==
    /\ vpos \in InitPositions
    /\ vbal \in {b \in InitBalances : b + UsedMargin(vpos) <= TotalBalance}
    /\ vorders = <<>>
    /\ \E c \in CandidateConfigs :
          long_candidates = c[1] /\ short_candidates = c[2]
    /\ scan \in ScanOrders
    /\ pc = "close"
    /\ LET built == BuildTargets(long_candidates, short_candidates,
                                 EmptyDict, Symbols)
           cur == StablePositions(vpos)
           orders == NonZero(Require(built.tgt, cur))
           co == close_orders(orders, cur, built.tgt)
       IN  /\ final_target = built.tgt
           /\ error_reasons = built.errs
           /\ current_positions = cur
           /\ all_orders = orders
           /\ phase_orders = co
           /\ todo = DOMAIN co
           /\ is_first_day = (cur = EmptyDict)
    /\ adjusted_to_zero = {}
    /\ processed_tickers = {}
    /\ pending_orders = <<>>
    /\ available_balance = vbal
    /\ elapsed = 0
    /\ polls = 0
    /\ retry = NoRetry
    /\ faults = 0
    /\ hist = InitHist

(* the venue matches the rest of a resting order before the loops end *)
EarlyFill(i) ==
    LET o == vorders[i]
        signed == Sign(o.side) * (o.qty - o.exec)
    IN
    /\ pc \in {"close", "open"}
    /\ i \in OpenIds
    /\ o.ro => Reduces(o.side, vpos[o.sym]) /\ Abs(signed) <= Abs(vpos[o.sym])
    /\ BalanceAfter(o.sym, signed) >= 0
    /\ vpos' = [vpos EXCEPT ![o.sym] = @ + signed]
    /\ vbal' = BalanceAfter(o.sym, signed)
    /\ vorders' = [vorders EXCEPT ![i].exec = o.qty, ![i].st = "FILLED"]
    /\ UNCHANGED <<inputs, pc, engine, faults, hist>>

NextPhases ==
    \/ \E t \in Symbols, f \in StepFaults : CloseStep(t, f)
    \/ CloseDone
    \/ \E t \in Symbols, f \in StepFaults : OpenStep(t, f)
    \/ OpenDone
    \/ \E f \in StepFaults : RetryStep(f)
    \/ RetryGiveUp
    \/ \E i \in 1..MaxOrders : EarlyFill(i)

SpecPhases == InitPhases /\ [][NextPhases]_vars

(* C23: in one round at most one maker order is submitted with success    *)
(* for a symbol, the orders of the retry path counted with those of the     *)
(* close loop and of the open loop; up to the wait window the pending list  *)
(* holds every order submitted with success in the round                    *)
C23_OneOrderPerSymbolPerRound ==
    \A i, j \in 1..Len(pending_orders) :
        pending_orders[i].ticker = pending_orders[j].ticker => i = j

----------------------------------------------------------------------------
(* Properties of the fill-wait window *)

(* the only tracked order of its symbol *)
OnlyOrderOf(p) ==
    \A j \in 1..Len(pending_orders) :
        pending_orders[j].ticker = p.ticker => pending_orders[j] = p

(* the in-memory position of p's symbol before p was submitted: the close  *)
(* loop and the open loop mark the symbol as processed and book the order   *)
(* at once (lines 877-879, 946-948), the retry path does neither            *)
BeforeSubmit(p) ==
    Get(current_positions, p.ticker)
        - (IF p.ticker \in processed_tickers
           THEN Sign(p.side) * vorders[p.order_id].qty ELSE 0)

(* C24: when the first pass of the wait window sees an order FILLED, the   *)
(* in-memory position of its symbol becomes the position before the order   *)
(* was submitted plus the signed executed quantity, and the in-memory       *)
(* delta becomes the target minus that position                             *)
C24_FillAppliedOnce ==
    [][ (pc = "wait" /\ polls = 0 /\ polls' = 1 /\ faults' = faults) =>
          \A i \in 1..Len(pending_orders) :
              LET p == pending_orders[i]
                  o == vorders[p.order_id]
              IN  (o.st = "FILLED" /\ OnlyOrderOf(p)) =>
                      /\ Get(current_positions', p.ticker)
                            = BeforeSubmit(p) + Sign(p.side) * o.exec
                      /\ Get(all_orders', p.ticker)
                            = Get(final_target, p.ticker)
                                  - Get(current_positions', p.ticker) ]_vars

(* C25: after a pass of the wait window that saw an order PARTIALLY_FILLED *)
(* the quantity tracked for it is the submitted quantity less the           *)
(* cumulative executed quantity the venue reported, and is not negative     *)
C25_RemainingIsSubmittedLessExecuted ==
    [][ (pc = "wait" /\ polls' = polls + 1 /\ faults' = faults) =>
          \A i \in 1..Len(pending_orders') :
              LET p == pending_orders'[i]
                  o == vorders[p.order_id]
              IN  o.st = "PARTIALLY_FILLED" =>
                      p.qty = o.qty - o.exec /\ p.qty >= 0 ]_vars

(* C26: the step that ends the wait window cancels every tracked order   *)
(* that is still open on the venue, also when the listing of the open       *)
(* orders fails (the step that escapes with an exception); steps in which   *)
(* the venue refuses a cancel request are left aside                        *)
C26_PendingOrdersAreCancelled ==
    [][ (pc = "cancel" /\ (pc' = "returned" \/ faults' = faults)) =>
          \A i \in 1..Len(pending_orders) :
              pending_orders[i].order_id \in OpenIds
                  => vorders'[pending_orders[i].order_id].st = "CANCELED" ]_vars

(* C27: when the wait window ends with a tracked order that is no longer  *)
(* open on the venue and has executed, the step that ends the window adds   *)
(* the executed quantity found in the trade history to the in-memory        *)
(* position of the symbol                                                   *)
C27_VanishedOrderIsRechecked ==
    [][ (pc = "cancel" /\ pc' = "round_end") =>
          \A i \in 1..Len(pending_orders) :
              LET p == pending_orders[i]
                  o == vorders[p.order_id]
              IN  (p.order_id \notin OpenIds /\ o.exec > 0 /\ OnlyOrderOf(p)) =>
                      Get(current_positions', p.ticker)
                          = Get(current_positions, p.ticker)
                                + Sign(p.side) * o.exec ]_vars

Terminal == {"CANCELED", "REJECTED", "EXPIRED"}

(* C28: a pass of the wait window that reads a terminal status other than *)
(* FILLED for a tracked order drops the order from the pending list and     *)
(* adds whatever the trade history shows as executed for it (nothing when   *)
(* the history is empty) to the in-memory position of the symbol            *)
C28_TerminalOrderIsReconciled ==
    [][ (pc = "wait" /\ polls' = polls + 1 /\ faults' = faults) =>
          \A i \in 1..Len(pending_orders) :
              LET p == pending_orders[i]
                  o == vorders[p.order_id]
              IN  (o.st \in Terminal /\ OnlyOrderOf(p)) =>
                      /\ \A j \in 1..Len(pending_orders') :
                            pending_orders'[j].order_id # p.order_id
                      /\ Get(current_positions', p.ticker)
                            = Get(current_positions, p.ticker)
                                  + Sign(p.side) * o.exec ]_vars

(* an order that expired after a partial execution has been polled and    *)
(* has left the pending list                                                *)
C28_Witness ==
    \E i \in 1..Len(vorders) :
        /\ vorders[i].st \in Terminal /\ vorders[i].exec > 0
        /\ pc \in {"wait", "round_end"} /\ polls > 0
        /\ vorders[i].sym \in DOMAIN error_reasons
        /\ error_reasons[vorders[i].sym] = "order_canceled"
        /\ \A j \in 1..Len(pending_orders) : pending_orders[j].order_id # i

----------------------------------------------------------------------------
(* Properties of the round start and of the open loop *)

(* C29: the positions a round classifies are the snapshot fetched for it, *)
(* with no local adjustment added: the step that starts a round leaves the  *)
(* in-memory positions as fetched and splits the delta set by them          *)
C29_RoundClassifiesFetchedSnapshot ==
    [][ (pc = "round_start" /\ pc' = "close") =>
            /\ current_positions' = current_positions
            /\ phase_orders' = close_orders(all_orders, current_positions,
                                            final_target) ]_vars

(* the order the open loop is about to handle for t turns the book of t  *)
(* towards a side the position does not hold: the position is flat or       *)
(* opposite and the target is nonzero on the side of the order              *)
TurnsToNewSide(t) ==
    LET qty == phase_orders[t]
        cur == Get(current_positions, t)
        tgt == Get(final_target, t)
    IN  /\ t \notin processed_tickers
        /\ \/ qty > 0 /\ cur <= 0 /\ tgt > 0
           \/ qty < 0 /\ cur >= 0 /\ tgt < 0

(* what one iteration of the open loop does with a reverse open: the       *)
(* quantity is the one adjust_quantity gives with is_close = True, the      *)
(* balance is not looked at, and the order, when sent, is marked as a close *)
HandledAsReverseOpen(t) ==
    LET was == hist'.last
        adj == adjust_quantity(t, Abs(phase_orders[t]), PriceOf[t], TRUE, TRUE)
    IN  /\ was # NoLast /\ was.kind = "open" /\ was.ticker = t
        /\ was.reverse
        /\ was.adj = adj.qty
        /\ was.reason # "insufficient_balance"
        /\ available_balance' = available_balance
        /\ Len(vorders') > Len(vorders) => vorders'[Len(vorders')].ro

(* an iteration of the open loop in which no venue call fails *)
OpenIteration == pc = "open" /\ todo # {} /\ todo' # todo /\ faults' = faults

(* C30 as stated: every order of the open loop that turns to a new side,   *)
(* from a flat position as well as from an opposite one, is handled as a    *)
(* reverse open                                                             *)
C30_Original ==
    [][ OpenIteration =>
          (TurnsToNewSide(NextKey(todo))
              => HandledAsReverseOpen(NextKey(todo))) ]_vars

(* C30: an order of the open loop that turns to a new side for a symbol    *)
(* that has an entry in the in-memory positions (an opposite position, or   *)
(* an entry of zero) is adjusted with is_close = True and submitted         *)
(* without the margin check                                                 *)
C30_ReverseOpenSkipsMargin ==
    [][ OpenIteration =>
          (TurnsToNewSide(NextKey(todo))
             /\ NextKey(todo) \in DOMAIN current_positions
                => HandledAsReverseOpen(NextKey(todo))) ]_vars

(* a reverse open was sent although the balance did not cover its margin *)
C30_Witness ==
    /\ hist.last # NoLast /\ hist.last.kind = "open"
    /\ hist.last.reverse /\ hist.last.submitted
    /\ hist.last.reason = NoReason
    /\ Get(final_target, hist.last.ticker) # 0
    /\ InsufficientBalance(hist.last.bal, hist.last.adj, hist.last.price)

(* an iteration of the close loop or of the open loop in which no venue   *)
(* call fails                                                               *)
LoopIteration ==
    pc \in {"close", "open"} /\ todo # {} /\ todo' # todo /\ faults' = faults

(* the side of the order the running loop derives for t (lines 844, 894) *)
LoopSide(t) ==
    IF phase_orders[t] > 0 \/ (pc = "close" /\ Get(current_positions, t) < 0)
    THEN "BUY" ELSE "SELL"

(* C31: an order of the close loop or of the open loop whose side reduces *)
(* the in-memory position of its symbol is adjusted with is_close = True    *)
(* and is not refused for lack of balance, also when the open loop handles  *)
(* a symbol whose close attempt was skipped or failed in the round          *)
C31_ReducingOrderIsClose ==
    [][ LoopIteration =>
          LET t == NextKey(todo)
          IN  (/\ phase_orders[t] # 0
               /\ t \notin processed_tickers \cup adjusted_to_zero
               /\ Reduces(LoopSide(t), Get(current_positions, t)))
                  => /\ hist'.last # NoLast
                     /\ hist'.last.reverse
                     /\ hist'.last.reason # "insufficient_balance" ]_vars

(* an iteration of the close loop or of the open loop *)
AnyIteration == pc \in {"close", "open"} /\ todo # {} /\ todo' # todo

(* the placement of the iteration just made was refused *)
PlacementFailed ==
    /\ hist'.last # NoLast
    /\ hist'.last.submitted /\ hist'.last.reason = "order_failed"

(* C32: a placement that fails starts the retry only on a rejection by    *)
(* the venue, never on a refusal that does not depend on the book (minimum  *)
(* notional, margin, a reduce-only order with nothing to reduce); a failure *)
(* that starts no retry places no order and leaves the reason               *)
(* "postOnly order failed" for the symbol at once                           *)
C32_RetryOnlyOnWouldCross ==
    [][ (AnyIteration /\ PlacementFailed) =>
          LET t == NextKey(todo)
              was == hist'.last
          IN  /\ vorders' = vorders
              /\ t \in DOMAIN error_reasons'
              /\ IF pc' = "retry"
                 THEN /\ faults' = faults + 1
                      /\ retry'.ticker = t
                      /\ ~Forced(t, LoopSide(t), was.adj, was.price, was.reverse)
                 ELSE /\ error_reasons'[t] = "postonly_failed"
                      /\ retry' = NoRetry ]_vars

(* a placement was refused for another reason than a crossing price, and *)
(* no retry runs                                                          *)
C32_Witness ==
    /\ pc \in {"close", "open"} /\ retry = NoRetry
    /\ Len(vorders) < MaxOrders
    /\ hist.last # NoLast
    /\ hist.last.submitted /\ hist.last.reason = "order_failed"
    /\ error_reasons[hist.last.ticker] = "postonly_failed"

(* C33: when the retry loop of a symbol ends, the symbol has a failure    *)
(* reason in the error map exactly when the retry placed no order, and an   *)
(* order the retry placed is in the pending list of the round               *)
C33_RetryEndsWithOrderOrReason ==
    [][ (pc = "retry" /\ pc' # "retry") =>
          /\ (retry.ticker \in DOMAIN error_reasons') <=> (vorders' = vorders)
          /\ vorders' # vorders =>
                \E j \in 1..Len(pending_orders') :
                    /\ pending_orders'[j].order_id = Len(vorders')
                    /\ pending_orders'[j].ticker = retry.ticker ]_vars

----------------------------------------------------------------------------
(* Properties of the round end and of the run budget *)

(* the residual of t against the positions cur is an opening one: it is   *)
(* nonzero and its side does not reduce the position                        *)
OpeningResidual(t, cur) ==
    LET d == Get(final_target, t) - Get(cur, t)
    IN  d # 0 /\ ~Reduces(IF d > 0 THEN "BUY" ELSE "SELL", Get(cur, t))

(* the residual of t normalises to nothing or to less than the minimum   *)
(* notional of the symbol                                                 *)
Negligible(t, cur) ==
    LET d == Get(final_target, t) - Get(cur, t)
        adj == adjust_quantity(t, Abs(d), PriceOf[t], FALSE, TRUE)
    IN  adj.qty = 0 \/ adj.qty * PriceOf[t] < Rules[t].minNotional

(* C34: the end of a round pins a symbol exactly when the run is not a    *)
(* first-day run and the residual of the symbol against the positions just  *)
(* fetched is an opening one that is negligible; residuals that reduce a    *)
(* position are not pinned                                                  *)
C34_PinnedIffNegligibleOpening ==
    [][ (pc = "round_end" /\ faults' = faults) =>
          \A t \in Symbols \ adjusted_to_zero :
              t \in adjusted_to_zero'
                  <=> /\ ~is_first_day
                      /\ OpeningResidual(t, current_positions')
                      /\ Negligible(t, current_positions') ]_vars

(* C35: for a pinned symbol no maker order is placed in a later round    *)
(* and no market order is submitted in the fallback                         *)
C35_NoOrderForPinnedSymbol ==
    \A t \in adjusted_to_zero :
        /\ hist.fbSub[t] = 0
        /\ pc \in LoopPcs \ {"round_start"} => t \notin hist.placed

(* C36: the budget decides only at the check made at the start of a      *)
(* round: the round goes to the fallback exactly when the budget is spent   *)
(* at that check, the loop is left on the budget nowhere else (any other    *)
(* exit to the fallback has an empty delta set), and every maker order is   *)
(* placed in a round whose check found budget left                          *)
C36_BudgetCheckedOncePerRound ==
    [][ (pc \in LoopPcs) =>
          /\ (pc = "round_start" /\ pc' # pc) =>
                 ((pc' = "fb_start") <=> (elapsed >= MaxRounds))
          /\ (pc # "round_start" /\ pc' = "fb_start") =>
                 (DOMAIN all_orders' = {} /\ hist'.exit = "converged")
          /\ (pc # "round_start" /\ pc' \in LoopPcs) => hist'.exit = hist.exit
          /\ Len(vorders') > Len(vorders) => (MaxRounds > elapsed) ]_vars

(* the run has left the loop on the budget with deltas still open, after  *)
(* rounds that placed orders                                              *)
C36_Witness ==
    /\ pc = "fb_start" /\ hist.exit = "timeout"
    /\ elapsed >= MaxRounds
    /\ DOMAIN all_orders # {}
    /\ vorders # <<>>

RECURSIVE OpenMargin(_)
OpenMargin(i) ==
    IF i > Len(pending_orders) THEN 0
    ELSE LET p == pending_orders[i]
         IN  (IF vorders[p.order_id].ro THEN 0
              ELSE margin_required(vorders[p.order_id].qty, PriceOf[p.ticker]))
             + OpenMargin(i + 1)

(* C38: while the loops of a round run, the available balance the engine  *)
(* tracks is not negative and the margin of the opening orders submitted    *)
(* with success in the round, those of the retry path included, is within   *)
(* the available balance read at the start of the round (the venue's        *)
(* balance, which no fill changes while the loops run)                      *)
C38_OpenMarginWithinBalance ==
    (pc \in {"close", "open", "retry"} /\ ~hist.readFailed)
        => /\ available_balance >= 0
           /\ OpenMargin(1) <= vbal

----------------------------------------------------------------------------
(* Properties of the market-order pass and of the close loop *)

(* the residual of t flips the position: position and target are on       *)
(* opposite sides                                                          *)
Flips(t) == Get(current_positions, t) * Get(final_target, t) < 0

(* C39: in the second pass of the fallback the quantity of a residual is  *)
(* adjusted with is_close = True exactly when the target of the symbol is   *)
(* zero or the residual flips the position                                  *)
C39_FallbackCloseIffZeroOrFlip ==
    [][ (pc = "fb_open" /\ todo # {} /\ todo' # todo /\ faults' = faults
         /\ hist'.last # NoLast) =>
          LET t == NextKey(todo)
          IN  hist'.last.reverse
                  <=> (Get(final_target, t) = 0 \/ Flips(t)) ]_vars

----------------------------------------------------------------------------
(* The second round, lines 790-957 and 1309-1357, of a run whose first round  *)
(* left an order on the book: the run began short of B with no balance and   *)
(* the target long of A alone; the first round placed the close order of B   *)
(* and skipped A for its margin; the order was partly filled, and its status *)
(* query was answered with -2011 (lines 998-1017), so that the fill was      *)
(* credited, the order left the pending list still resting, and lines        *)
(* 1030-1069 were not entered; lines 1071-1100 then read the positions       *)

InitCarry ==
    /\ long_candidates = <<"A">> /\ short_candidates = <<>>
    /\ scan \in ScanOrders
    /\ final_target = BuildTargets(long_candidates, short_candidates,
                                   EmptyDict, Symbols).tgt
    /\ \E held \in 2..Rules["B"].maxQty :
          \E e \in 1..(held - 1) :
             /\ vpos = [A |-> 0, B |-> e - held]
             /\ vbal = e * MarginPerUnit("B")
             /\ vorders = << [NewOrder("B", "BUY", held, TRUE)
                                 EXCEPT !.exec = e, !.st = "PARTIALLY_FILLED"] >>
    /\ current_positions = StablePositions(vpos)
    /\ all_orders = NonZero(Require(final_target, current_positions))
    /\ phase_orders = [t \in Symbols |-> Get(final_target, t)]
    /\ processed_tickers = {"B"}
    /\ error_reasons = [A |-> "insufficient_balance"]
    /\ adjusted_to_zero = {}
    /\ todo = {}
    /\ pending_orders = <<>>
    /\ available_balance = 0
    /\ is_first_day = FALSE
    /\ elapsed = 1
    /\ polls \in {1, 2}
    /\ retry = NoRetry
    /\ faults = 0
    /\ pc = "round_start"
    /\ hist = [InitHist EXCEPT !.placed = {"B"}, !.short = {"A"}]

NextCarry ==
    \/ RoundStart
    \/ \E t \in Symbols, f \in StepFaults : CloseStep(t, f)
    \/ CloseDone
    \/ \E t \in Symbols, f \in StepFaults : OpenStep(t, f)
    \/ OpenDone
    \/ \E f \in StepFaults : RetryStep(f)
    \/ RetryGiveUp

SpecCarry == InitCarry /\ [][NextCarry]_vars

(* C40: an order placed by the close loop is on the side opposite to the *)
(* in-memory position of its symbol and asks for no more than the smaller   *)
(* of the delta and of that position, so that its complete fill leaves the  *)
(* position on its side or flat                                             *)
C40_CloseOrderStaysOnSide ==
    [][ (pc = "close" /\ pc' = "close" /\ Len(vorders') > Len(vorders)) =>
          LET o == vorders'[Len(vorders')]
              cur == Get(current_positions, o.sym)
          IN  /\ Reduces(o.side, cur)
              /\ o.qty <= Abs(cur)
              /\ o.qty <= Abs(phase_orders[o.sym])
              /\ Get(current_positions', o.sym) * cur >= 0 ]_vars

====
